---- MODULE Spec2Model ----
(***************************************************************************)
(* The agent orchestration core of toyagent.py and pycodex.py: the session *)
(* runner (run_interactive, run_single_pass), the conversation driver      *)
(* (run_loop, call_api, process_api_response), the tool dispatcher inside  *)
(* process_api_response and the approval gate (ask_for_approval).          *)
(*                                                                         *)
(* Both agents are modelled by the same actions; the variable agent says   *)
(* which script is running and selects its registry and its branches.      *)
(***************************************************************************)
EXTENDS Integers, Sequences, FiniteSets, TLC

(***************************************************************************)
(* Bounds of the model.                                                    *)
(***************************************************************************)
\* tool calls the narrow model stub may list over one session
MaxToolCalls == 2
\* tool calls the wide model stub may list over one session
MaxWideCalls == 1
\* requests sent to the model over one session
MaxRequests == 2
\* lines the operator types at the top-level prompt over one session
MaxUserLines == 2
\* lines one approval prompt reads that are neither a yes nor a no
MaxInvalidLines == 1
\* tool calls the stub of the approval specification may list over one session
MaxApprovalCalls == 1
\* tool calls the stub of the raising specification may list over one session
MaxRaiseCalls == 2
\* tool calls the stub may list in one session of the session stub
MaxSessionCalls == 1
MaxToolsCalls == 2
MaxFilesCalls == 1
MaxFairCalls == 1
MaxFailureCalls == 1
MaxGateCalls == 2

VARIABLES
    agent,         \* "toyagent" or "pycodex": the script that is running
    mode,          \* "interactive" or "single": the session runner's mode
    stub,          \* what the model stub may answer (names, payloads, budget)
    pc,            \* where the single thread of control is
    history,       \* the message list
    tool_calls,    \* response_message.tool_calls of the response in process
    idx,           \* index of the tool call the for loop is at
    tool_results,  \* the tool messages collected so far in this turn
    cur,           \* locals of the loop body: parsed_args, approved, ...
    lines,         \* what the present ask_for_approval call has read so far
    trace,         \* observable events of the session, in order
    counters,      \* requests sent, calls listed, user lines read
    sent,          \* the requests sent to the model, each with its response
    user_input,    \* what the session prompt read last
    files          \* the working directory: name -> absent, directory or file

vars == <<agent, mode, stub, pc, history, tool_calls, idx, tool_results,
          cur, lines, trace, counters, sent, user_input, files>>

(***************************************************************************)
(* Text typed by the operator: a line is a sequence of characters.         *)
(***************************************************************************)
\* str.lower() on one character
LowerChar(c) ==
    CASE c = "Y" -> "y"
      [] c = "N" -> "n"
      [] c = "E" -> "e"
      [] c = "S" -> "s"
      [] c = "Q" -> "q"
      [] c = "X" -> "x"
      [] OTHER -> c

\* str.lower()
lower(s) == [i \in 1..Len(s) |-> LowerChar(s[i])]

\* characters str.strip() removes
IsSpace(c) == c \in {" ", "\t"}

RECURSIVE lstrip(_)
lstrip(s) == IF s # <<>> /\ IsSpace(Head(s)) THEN lstrip(Tail(s)) ELSE s

RECURSIVE rstrip(_)
rstrip(s) ==
    IF s # <<>> /\ IsSpace(s[Len(s)]) THEN rstrip(SubSeq(s, 1, Len(s) - 1)) ELSE s

\* str.strip()
strip(s) == rstrip(lstrip(s))

\* the lines an operator may type at an approval prompt
ApprovalLines ==
    { <<"y">>, <<"Y">>, <<" ", "Y", " ">>, <<"n">>, <<"N", " ">>, <<>>, <<" ">>,
      <<"y", "e", "s">>, <<"y", " ", "y">>, <<"m">> }


\* what input() can do at a prompt: return one of the lines, or raise
InputEvents(texts) ==
    [kind : {"line"}, text : texts]
        \cup { [kind |-> "EOFError"], [kind |-> "KeyboardInterrupt"] }

\* the lines the operator may type at the top-level prompt
UserLines ==
    { <<"t">>, <<" ", "t", " ">>, <<>>, <<" ">>, <<"q", "u", "i", "t">>,
      <<" ", "E", "x", "i", "t">> }

\* what input() can do at the top-level prompt
UserInputEvents == InputEvents(UserLines)

(***************************************************************************)
(* ask_for_approval: what one pass of its while loop does with what        *)
(* input() gave.  "again" is the loop going round after "Invalid input".   *)
(***************************************************************************)
\* variant of AskStep in which an empty response counts as a yes
AskStep_EmptyIsYes(ev) ==
    IF ev.kind = "line"
    THEN LET response == strip(lower(ev.text))
         IN  CASE response = <<"y">> \/ response = <<>> -> "True"
               [] response = <<"n">> -> "False"
               [] OTHER -> "again"
    ELSE "False"

\* variant of AskStep in which any response but 'y' is a no
AskStep_NeverAsksAgain(ev) ==
    IF ev.kind = "line" /\ strip(lower(ev.text)) = <<"y">> THEN "True" ELSE "False"


AskStep(ev) ==
    IF ev.kind = "line"
    THEN LET response == strip(lower(ev.text))
         IN  CASE response = <<"y">> -> "True"
               [] response = <<"n">> \/ response = <<>> -> "False"
               [] OTHER -> "again"
    ELSE "False"

(***************************************************************************)
(* JSON values, as json.loads builds them and json.dumps reads them.  A    *)
(* dict is the sequence of its <<key, value>> pairs in insertion order.    *)
(***************************************************************************)
JNull == [t |-> "null"]
JBool(b) == [t |-> "bool", v |-> b]
JInt(n) == [t |-> "int", v |-> n]
JStr(s) == [t |-> "str", v |-> s]
JList(xs) == [t |-> "list", v |-> xs]
JDict(pairs) == [t |-> "dict", v |-> pairs]

\* key in d
HasKey(d, k) == \E i \in 1..Len(d.v) : d.v[i][1] = k

\* d[key]
Get(d, k) == d.v[CHOOSE i \in 1..Len(d.v) : d.v[i][1] = k][2]

\* d.get(key, default)
GetOr(d, k, default) == IF HasKey(d, k) THEN Get(d, k) ELSE default

\* the keys of d
Keys(d) == { d.v[i][1] : i \in 1..Len(d.v) }

\* the string literals of the model: argument keys and values, envelope
\* keys and messages
StringUniverse ==
    { "path", "content", "overwrite", "source_path", "destination_path",
      "code", "url", "question", "command", "x", "f", "g", "c", "q",
      "http://h", "ftp://h", "error", "exit_code", "success", "response", "stdout",
      "stderr", "status_code", "answer", "entries", "", "old", "new", "f/", "g/", "\\ud800",
      "Unexpected write error: UnicodeEncodeError",
      "Action denied by user.",
      "Invalid arguments provided to tool.",
      "Tool execution failed: TypeError",
      "Tool execution failed: AttributeError",
      "Tool execution failed: EOFError",
      "Tool execution failed: KeyboardInterrupt",
      "Tool execution failed: Timeout",
      "TypeError",
      "Unexpected read error: TypeError", "Read failed: PermissionError",
      "Unexpected write error: TypeError", "Write failed: PermissionError",
      "Unexpected copy error: TypeError", "Copy failed: PermissionError",
      "Copy failed: SameFileError", "File copy error: SameFileError",
      "Unexpected list error: TypeError",
      "Unexpected create dir error: TypeError",
      "Create dir failed: PermissionError",
      "Failed to copy file from '5' to '5': TypeError",
      "Permission denied during copy operation (source: f, dest: g)",
      "URL must start with http:// or https://",
      "Timeout (10s)", "Request timed out after 10 seconds.",
      "Fetch failed: ConnectionError",
      "Failed to fetch URL 'http://h': ConnectionError",
      "User interrupted or input closed.",
      "User interrupted the question.",
      "Input stream closed while asking question.",
      "No code provided to execute.",
      "Failed to execute Python code: TypeError",
      "Python process exited with code 1",
      "Python code execution timed out after 30 seconds.",
      "Execution failed: TypeError", "Failed to execute command: TypeError",
      "Timeout (60s)", "Command timed out after 60 seconds." }
    \cup { "Unsupported function: " \o n :
             n \in { "no_such_tool", "execute_python_code", "write_file",
                     "read_file", "copy_file", "fetch_web_page", "ask_user",
                     "list_directory", "execute_shell_command", "shell_exec" } }
    \cup { m \o n :
             m \in { "Read failed: Not a file: ", "File not found: ",
                     "Permission denied to read file: ",
                     "Write failed: Path is a directory: ",
                     "Write failed: File exists, overwrite=False: ",
                     "Permission denied to write file: ",
                     "File already exists and overwrite is false: ",
                     "Path is a directory, cannot write file: ",
                     "Copy failed: Source not found or not a file: ",
                     "Source path is not a file or does not exist: ",
                     "Copy failed: Destination is a directory: ",
                     "Copy failed: Destination exists, overwrite=False: ",
                     "Destination path already exists and overwrite is false: ",
                     "Destination path is a directory, cannot overwrite with a file: ",
                     "List failed: Not a directory: ", "Directory not found: ",
                     "Create dir failed: Path exists but is a file: ",
                     "Path exists but is not a directory: ",
                     "Permission denied to create directory: " },
             n \in {"f", "g"} }
    \cup { m \o n \o "': TypeError" :
             m \in { "Failed to read file '", "Failed to write file '",
                     "Failed to list directory '", "Failed to create directory '" },
             n \in {"f", "g", "5"} }
    \cup { "Failed to write file '" \o n \o "': UnicodeEncodeError" : n \in {"f", "g"} }

\* the integers the model's JSON texts hold
IntUniverse == (-7..5) \cup {200}

\* a JSON string literal: the text between double quotes
Quote(s) == "\"" \o s \o "\""

RECURSIVE json_dumps(_)
RECURSIVE DumpItems(_)
RECURSIVE DumpPairs(_)
\* variant of json_dumps that writes booleans and None as str() does
json_dumps_AsStr(v) ==
    CASE v.t = "null" -> <<"None">>
      [] v.t = "bool" -> << IF v.v THEN "True" ELSE "False" >>
      [] v.t = "int"  -> << ToString(v.v) >>
      [] v.t = "str"  -> << Quote(v.v) >>
      [] v.t = "list" -> <<"[">> \o DumpItems(v.v) \o <<"]">>
      [] v.t = "dict" -> <<"{">> \o DumpPairs(v.v) \o <<"}">>

\* json.dumps: the text, as its sequence of tokens
json_dumps(v) ==
    CASE v.t = "null" -> <<"null">>
      [] v.t = "bool" -> << IF v.v THEN "true" ELSE "false" >>
      [] v.t = "int"  -> << ToString(v.v) >>
      [] v.t = "str"  -> << Quote(v.v) >>
      [] v.t = "list" -> <<"[">> \o DumpItems(v.v) \o <<"]">>
      [] v.t = "dict" -> <<"{">> \o DumpPairs(v.v) \o <<"}">>

DumpItems(xs) ==
    IF xs = <<>> THEN <<>>
    ELSE json_dumps(Head(xs))
             \o (IF Tail(xs) = <<>> THEN <<>> ELSE <<",">> \o DumpItems(Tail(xs)))

DumpPairs(ps) ==
    IF ps = <<>> THEN <<>>
    ELSE << Quote(Head(ps)[1]), ":" >> \o json_dumps(Head(ps)[2])
             \o (IF Tail(ps) = <<>> THEN <<>> ELSE <<",">> \o DumpPairs(Tail(ps)))

\* json.JSONDecodeError, as a parse result
JSONDecodeError == [t |-> "JSONDecodeError"]

IsError(r) == r.t = "JSONDecodeError"

\* a scalar token read back
ParseScalar(tok) ==
    CASE tok = "null"  -> JNull
      [] tok = "true"  -> JBool(TRUE)
      [] tok = "false" -> JBool(FALSE)
      [] \E n \in IntUniverse : ToString(n) = tok ->
            JInt(CHOOSE n \in IntUniverse : ToString(n) = tok)
      [] \E s \in StringUniverse : Quote(s) = tok ->
            JStr(CHOOSE s \in StringUniverse : Quote(s) = tok)
      [] OTHER -> JSONDecodeError

RECURSIVE ParseValue(_)
RECURSIVE ParseItems(_, _)
RECURSIVE ParsePairs(_, _)
\* what follows one item of a list: "]" ends the list, "," goes on
AfterItem(item, acc) ==
    IF IsError(item.val) \/ item.rest = <<>>
    THEN [val |-> JSONDecodeError, rest |-> <<>>]
    ELSE CASE Head(item.rest) = "]" ->
                [val |-> JList(Append(acc, item.val)), rest |-> Tail(item.rest)]
           [] Head(item.rest) = "," ->
                ParseItems(Tail(item.rest), Append(acc, item.val))
           [] OTHER -> [val |-> JSONDecodeError, rest |-> <<>>]

\* what follows one pair of an object: "}" ends the object, "," goes on
AfterPair(key, item, acc) ==
    IF IsError(item.val) \/ item.rest = <<>>
    THEN [val |-> JSONDecodeError, rest |-> <<>>]
    ELSE CASE Head(item.rest) = "}" ->
                [val |-> JDict(Append(acc, <<key, item.val>>)),
                 rest |-> Tail(item.rest)]
           [] Head(item.rest) = "," ->
                ParsePairs(Tail(item.rest), Append(acc, <<key, item.val>>))
           [] OTHER -> [val |-> JSONDecodeError, rest |-> <<>>]

\* a pair whose key token was read as key
PairWithKey(key, toks, acc) ==
    IF key.t # "str" \/ toks[2] # ":"
    THEN [val |-> JSONDecodeError, rest |-> <<>>]
    ELSE AfterPair(key.v, ParseValue(SubSeq(toks, 3, Len(toks))), acc)

\* one value at the head of toks: [val, rest], val an error when there is none
ParseValue(toks) ==
    IF toks = <<>> THEN [val |-> JSONDecodeError, rest |-> <<>>]
    ELSE CASE Head(toks) = "[" ->
                IF Len(toks) >= 2 /\ toks[2] = "]"
                THEN [val |-> JList(<<>>), rest |-> SubSeq(toks, 3, Len(toks))]
                ELSE ParseItems(Tail(toks), <<>>)
           [] Head(toks) = "{" ->
                IF Len(toks) >= 2 /\ toks[2] = "}"
                THEN [val |-> JDict(<<>>), rest |-> SubSeq(toks, 3, Len(toks))]
                ELSE ParsePairs(Tail(toks), <<>>)
           [] OTHER -> [val |-> ParseScalar(Head(toks)), rest |-> Tail(toks)]

\* the items of a list after "[" or ",", up to "]"
ParseItems(toks, acc) == AfterItem(ParseValue(toks), acc)

\* the pairs of an object after "{" or ",", up to "}"
ParsePairs(toks, acc) ==
    IF Len(toks) < 3 THEN [val |-> JSONDecodeError, rest |-> <<>>]
    ELSE PairWithKey(ParseScalar(toks[1]), toks, acc)

\* the value read when the text holds nothing after it
WholeText(r) ==
    IF IsError(r.val) \/ r.rest # <<>> THEN JSONDecodeError ELSE r.val

\* json.loads: the value, or JSONDecodeError
json_loads(toks) == WholeText(ParseValue(toks))

(***************************************************************************)
(* The tool registries of toyagent_tools.py and pycodex_tools.py.          *)
(***************************************************************************)
\* the keys of TOOL_EXECUTORS
TOOL_EXECUTORS(a) ==
    IF a = "toyagent"
    THEN { "execute_shell_command", "read_file", "write_file", "copy_file",
           "list_directory", "create_directory", "fetch_web_page", "ask_user",
           "execute_python_code" }
    ELSE { "shell_exec", "read_file", "write_file", "copy_file",
           "list_directory", "create_directory", "fetch_web_page", "ask_user" }

\* variant of DANGEROUS_TOOLS that lists every registered tool
DANGEROUS_TOOLS_Everything(a) == TOOL_EXECUTORS(a)


DANGEROUS_TOOLS(a) ==
    IF a = "toyagent"
    THEN { "execute_shell_command", "write_file", "copy_file",
           "create_directory", "fetch_web_page", "execute_python_code" }
    ELSE { "shell_exec", "write_file", "copy_file", "create_directory",
           "fetch_web_page" }

\* toyagent's DANGEROUS_TOOL_INFO: name -> {desc, detail_arg}
DANGEROUS_TOOL_INFO ==
    [ execute_shell_command |->
          [desc |-> "Execute Shell Command", detail_arg |-> "command"],
      write_file |-> [desc |-> "Write to File", detail_arg |-> "path"],
      copy_file |-> [desc |-> "Copy File", detail_arg |-> "destination_path"],
      create_directory |-> [desc |-> "Create Directory", detail_arg |-> "path"],
      fetch_web_page |-> [desc |-> "Fetch Web Page", detail_arg |-> "url"],
      execute_python_code |->
          [desc |-> "Execute Python Code", detail_arg |-> "code"] ]

\* the function TOOL_EXECUTORS[name] is
ExecutorFunc(a, name) ==
    IF a = "pycodex" /\ name = "shell_exec" THEN "execute_shell_command" ELSE name

\* the parameters of each executor function that have no default
Required(f) ==
    CASE f = "execute_shell_command" -> {"command"}
      [] f = "read_file" -> {"path"}
      [] f = "write_file" -> {"path", "content"}
      [] f = "copy_file" -> {"source_path", "destination_path"}
      [] f = "list_directory" -> {}
      [] f = "create_directory" -> {"path"}
      [] f = "fetch_web_page" -> {"url"}
      [] f = "ask_user" -> {"question", "CUSER", "CRESET"}
      [] f = "execute_python_code" -> {"code"}

\* the parameters of each executor function that have a default
Optional(f) ==
    CASE f = "execute_shell_command" -> {"working_directory", "timeout_seconds"}
      [] f = "write_file" -> {"overwrite"}
      [] f = "copy_file" -> {"overwrite"}
      [] f = "list_directory" -> {"path", "recursive"}
      [] f = "fetch_web_page" -> {"timeout_seconds"}
      [] f = "execute_python_code" -> {"timeout_seconds"}
      [] OTHER -> {}

\* the keywords the dispatcher adds to **parsed_args
ExtraKwargs(name) == IF name = "ask_user" THEN {"CUSER", "CRESET"} ELSE {}

\* whether executor_func(**parsed_args, **kwargs) binds: parsed_args is a
\* mapping, no keyword is given twice, none is unknown, none required is missing
Binds(a, name, parsed) ==
    /\ parsed.t = "dict"
    /\ Keys(parsed) \cap ExtraKwargs(name) = {}
    /\ LET f == ExecutorFunc(a, name)
           given == Keys(parsed) \cup ExtraKwargs(name)
       IN  /\ Required(f) \subseteq given
           /\ given \subseteq Required(f) \cup Optional(f)

(***************************************************************************)
(* The executors, as far as the dispatcher sees them: what a call returns  *)
(* or raises, and the file system it leaves.  What the network, the child  *)
(* process and the operator do is the environment's choice among the       *)
(* outcomes; `how' names that choice.  The text of a caught exception e in *)
(* a message is written as the exception's class name.                     *)
(***************************************************************************)
Returns(how, fs, env) ==
    [kind |-> "return", env |-> env, exc |-> "", how |-> how, files |-> fs]
Raises(how, fs, exc) ==
    [kind |-> "raise", env |-> JNull, exc |-> exc, how |-> how, files |-> fs]

\* the names the working directory may hold
FileNames == {"f", "g"}

\* what a name of the working directory is: nothing, a directory, a file
Absent == [kind |-> "absent"]
Dir == [kind |-> "dir"]
File(content) == [kind |-> "file", content |-> content]

\* pathlib.Path(path).exists(), .is_file(), .is_dir()
Exists(fs, path) == path \in DOMAIN fs /\ fs[path] # Absent
IsFile(fs, path) == path \in DOMAIN fs /\ fs[path].kind = "file"
IsDir(fs, path) == path = "." \/ (path \in DOMAIN fs /\ fs[path] = Dir)

\* Python's truth value of a JSON value
Truthy(v) ==
    CASE v.t = "null" -> FALSE
      [] v.t = "bool" -> v.v
      [] v.t = "int"  -> v.v # 0
      [] v.t = "str"  -> v.v # ""
      [] OTHER -> Len(v.v) > 0

\* a value inside an f-string
Fmt(v) ==
    CASE v.t = "str" -> v.v
      [] v.t = "int" -> ToString(v.v)
      [] v.t = "null" -> "None"
      [] v.t = "bool" -> IF v.v THEN "True" ELSE "False"
      [] OTHER -> "repr"

\* variant of read_file that lets the missing file escape as an exception
read_file_Raises(a, args, fs) == { Raises("missing", fs, "FileNotFoundError") }

read_file(a, args, fs) ==
    LET path == Get(args, "path")
        failed(how, toy, py) ==
            Returns(how, fs, JDict(<< <<"content", JNull>>,
                        <<"error", JStr(IF a = "toyagent" THEN toy ELSE py)>> >>))
    IN  IF path.t # "str"
        THEN { failed("type", "Unexpected read error: TypeError",
                      "Failed to read file '" \o Fmt(path) \o "': TypeError") }
        ELSE IF ~IsFile(fs, path.v)
        THEN { failed("missing", "Read failed: Not a file: " \o path.v,
                      "File not found: " \o path.v) }
        ELSE { Returns("ok", fs, JDict(<< <<"content", JStr(fs[path.v].content)>>,
                                         <<"error", JNull>> >>)),
               failed("denied", "Read failed: PermissionError",
                      "Permission denied to read file: " \o path.v) }

\* a str holding a surrogate code point with no partner, as json.loads gives
\* for the text "\\ud800"
LoneSurrogate == "\\ud800"

\* whether text.encode('utf-8') gives bytes; it raises UnicodeEncodeError on a
\* lone surrogate
Utf8Encodes(text) == text # LoneSurrogate

write_file(a, args, fs) ==
    LET path == Get(args, "path")
        content == Get(args, "content")
        overwrite == Truthy(GetOr(args, "overwrite", JBool(FALSE)))
        failed(how, after, toy, py) ==
            Returns(how, after, JDict(<< <<"success", JBool(FALSE)>>,
                        <<"error", JStr(IF a = "toyagent" THEN toy ELSE py)>> >>))
        \* the file is open for writing, and so created or emptied, when the
        \* text is encoded
        written == IF ~Utf8Encodes(content.v)
                   THEN { failed("encode", [fs EXCEPT ![path.v] = File("")],
                                 "Unexpected write error: UnicodeEncodeError",
                                 "Failed to write file '" \o path.v
                                     \o "': UnicodeEncodeError") }
                   ELSE { Returns("ok", [fs EXCEPT ![path.v] = File(content.v)],
                                  JDict(<< <<"success", JBool(TRUE)>>,
                                           <<"error", JNull>> >>)),
                          failed("denied", fs, "Write failed: PermissionError",
                                 "Permission denied to write file: " \o path.v) }
    IN  IF path.t # "str"
        THEN { failed("type", fs, "Unexpected write error: TypeError",
                      "Failed to write file '" \o Fmt(path) \o "': TypeError") }
        ELSE IF a = "toyagent"
        THEN IF IsDir(fs, path.v)
             THEN { failed("isdir", fs, "Write failed: Path is a directory: " \o path.v, "") }
             ELSE IF Exists(fs, path.v) /\ ~overwrite
             THEN { failed("exists", fs,
                           "Write failed: File exists, overwrite=False: " \o path.v, "") }
             ELSE IF content.t # "str"
             THEN { failed("type", fs, "Unexpected write error: TypeError", "") }
             ELSE written
        ELSE IF ~overwrite /\ (Exists(fs, path.v) \/ IsDir(fs, path.v))
             THEN { failed("exists", fs, "",
                           "File already exists and overwrite is false: " \o path.v) }
             ELSE IF IsDir(fs, path.v)
             THEN { failed("isdir", fs, "",
                           "Path is a directory, cannot write file: " \o path.v) }
             ELSE IF content.t # "str"
             \* the file is open, and so created or truncated, when f.write raises
             THEN { failed("type", [fs EXCEPT ![path.v] = File("")], "",
                           "Failed to write file '" \o path.v \o "': TypeError") }
             ELSE written

copy_file(a, args, fs) ==
    LET src == Get(args, "source_path")
        dest == Get(args, "destination_path")
        overwrite == Truthy(GetOr(args, "overwrite", JBool(FALSE)))
        failed(how, toy, py) ==
            Returns(how, fs, JDict(<< <<"success", JBool(FALSE)>>,
                        <<"error", JStr(IF a = "toyagent" THEN toy ELSE py)>> >>))
        exists == failed("exists",
                    "Copy failed: Destination exists, overwrite=False: " \o Fmt(dest),
                    "Destination path already exists and overwrite is false: " \o Fmt(dest))
        isdir == failed("isdir",
                    "Copy failed: Destination is a directory: " \o Fmt(dest),
                    "Destination path is a directory, cannot overwrite with a file: "
                        \o Fmt(dest))
    IN  IF src.t # "str" \/ dest.t # "str"
        THEN { failed("type", "Unexpected copy error: TypeError",
                      "Failed to copy file from '" \o Fmt(src) \o "' to '"
                          \o Fmt(dest) \o "': TypeError") }
        ELSE IF ~IsFile(fs, src.v)
        THEN { failed("missing",
                      "Copy failed: Source not found or not a file: " \o src.v,
                      "Source path is not a file or does not exist: " \o src.v) }
        ELSE IF Exists(fs, dest.v) /\ a = "toyagent" /\ IsDir(fs, dest.v)
        THEN { isdir }
        ELSE IF Exists(fs, dest.v) /\ ~overwrite
        THEN { exists }
        ELSE IF Exists(fs, dest.v) /\ IsDir(fs, dest.v)
        THEN { isdir }
        ELSE IF src.v = dest.v
        THEN { failed("same", "Copy failed: SameFileError",
                      "File copy error: SameFileError") }
        ELSE { Returns("ok", [fs EXCEPT ![dest.v] = fs[src.v]],
                       JDict(<< <<"success", JBool(TRUE)>>, <<"error", JNull>> >>)),
               failed("denied", "Copy failed: PermissionError",
                      "Permission denied during copy operation (source: " \o src.v
                          \o ", dest: " \o dest.v \o ")") }

\* the sorted names of the working directory, a directory's with os.sep
Listing(fs) ==
    LET entry(n) == IF ~Exists(fs, n) THEN <<>>
                    ELSE IF IsDir(fs, n) THEN << JStr(n \o "/") >>
                    ELSE << JStr(n) >>
    IN  entry("f") \o entry("g")

list_directory(a, args, fs) ==
    LET path == GetOr(args, "path", JStr("."))
        failed(how, toy, py) ==
            Returns(how, fs, JDict(<< <<"entries", JNull>>,
                        <<"error", JStr(IF a = "toyagent" THEN toy ELSE py)>> >>))
    IN  IF path.t # "str"
        THEN { failed("type", "Unexpected list error: TypeError",
                      "Failed to list directory '" \o Fmt(path) \o "': TypeError") }
        ELSE IF ~IsDir(fs, path.v)
        THEN { failed("missing", "List failed: Not a directory: " \o path.v,
                      "Directory not found: " \o path.v) }
        ELSE { Returns("ok", fs,
                       JDict(<< <<"entries", JList(IF path.v = "." THEN Listing(fs)
                                                   ELSE <<>>)>>,
                                <<"error", JNull>> >>)) }

\* variant of create_directory that fails without a message
create_directory_Silent(a, args, fs) ==
    { Returns("exists", fs, JDict(<< <<"success", JBool(FALSE)>>, <<"error", JNull>> >>)) }

create_directory(a, args, fs) ==
    LET path == Get(args, "path")
        failed(how, toy, py) ==
            Returns(how, fs, JDict(<< <<"success", JBool(FALSE)>>,
                        <<"error", JStr(IF a = "toyagent" THEN toy ELSE py)>> >>))
    IN  IF path.t # "str"
        THEN { failed("type", "Unexpected create dir error: TypeError",
                      "Failed to create directory '" \o Fmt(path) \o "': TypeError") }
        ELSE IF IsFile(fs, path.v)
        THEN { failed("exists", "Create dir failed: Path exists but is a file: " \o path.v,
                      "Path exists but is not a directory: " \o path.v) }
        ELSE { Returns("ok", IF path.v \in DOMAIN fs THEN [fs EXCEPT ![path.v] = Dir]
                             ELSE fs,
                       JDict(<< <<"success", JBool(TRUE)>>, <<"error", JNull>> >>)),
               failed("denied", "Create dir failed: PermissionError",
                      "Permission denied to create directory: " \o path.v) }

\* the urls of the model that start with http:// or https://
HttpUrls == {"http://h"}

\* variant of fetch_web_page whose timeout escapes as an exception
fetch_web_page_TimeoutRaises(a, args, fs) == { Raises("timeout", fs, "Timeout") }

\* url.startswith is outside the try: a url that is no string raises
fetch_web_page(a, args, fs) ==
    LET url == Get(args, "url")
        seconds == Fmt(GetOr(args, "timeout_seconds", JInt(10)))
        result(how, content, status_code, error) ==
            Returns(how, fs, JDict(<< <<"content", content>>,
                                      <<"status_code", status_code>>,
                                      <<"error", error>> >>))
    IN  IF url.t # "str"
        THEN { Raises("type", fs, "AttributeError") }
        ELSE IF url.v \notin HttpUrls
        THEN { result("scheme", JNull, JNull,
                      JStr("URL must start with http:// or https://")) }
        ELSE { result("ok", JStr("c"), JInt(200), JNull),
               result("timeout", JNull, JNull,
                      JStr(IF a = "toyagent" THEN "Timeout (" \o seconds \o "s)"
                           ELSE "Request timed out after " \o seconds \o " seconds.")),
               result("failed", JNull, JNull,
                      JStr(IF a = "toyagent" THEN "Fetch failed: ConnectionError"
                           ELSE "Failed to fetch URL '" \o url.v
                                    \o "': ConnectionError")) }

\* variant of ask_user that lets the end of input escape
ask_user_Escapes(a, args, fs) ==
    { Raises("eof", fs, "EOFError"), Raises("interrupt", fs, "KeyboardInterrupt") }

\* input() returns a line, or raises EOFError or KeyboardInterrupt
ask_user(a, args, fs) ==
    LET result(how, response, error) ==
            Returns(how, fs, JDict(<< <<"response", response>>, <<"error", error>> >>))
    IN  { result("ok", JStr("answer"), JNull),
          result("interrupt", JNull,
                 JStr(IF a = "toyagent" THEN "User interrupted or input closed."
                      ELSE "User interrupted the question.")),
          result("eof", JNull,
                 JStr(IF a = "toyagent" THEN "User interrupted or input closed."
                      ELSE "Input stream closed while asking question.")) }

\* variant of execute_python_code that reports a status other than 0 in error
execute_python_code_ExitIsError(a, args, fs) ==
    { Returns("nonzero", fs,
              JDict(<< <<"stdout", JStr("")>>, <<"stderr", JStr("")>>,
                       <<"error", JStr("Python process exited with code 1")>> >>)) }

execute_python_code(a, args, fs) ==
    LET code == Get(args, "code")
        seconds == Fmt(GetOr(args, "timeout_seconds", JInt(30)))
        result(how, stdout, stderr, error) ==
            Returns(how, fs, JDict(<< <<"stdout", stdout>>, <<"stderr", stderr>>,
                                      <<"error", error>> >>))
    IN  IF ~Truthy(code)
        THEN { result("nocode", JNull, JNull, JStr("No code provided to execute.")) }
        ELSE IF code.t # "str"
        THEN { result("type", JNull, JStr("TypeError"),
                      JStr("Failed to execute Python code: TypeError")) }
        ELSE IF code.v # "c"
        THEN { result("nonzero", JStr(""), JStr("Python process exited with code 1"),
                      JNull) }
        ELSE { result("ok", JStr(""), JStr(""), JNull),
               result("timeout", JNull, JNull,
                      JStr("Python code execution timed out after " \o seconds
                               \o " seconds.")) }

\* variant of execute_shell_command whose timeout carries no exit code
execute_shell_command_NoExitCode(a, args, fs) ==
    { Returns("timeout", fs, JDict(<< <<"stdout", JStr("")>>, <<"stderr", JStr("")>>,
                                      <<"error", JStr("Timeout (60s)")>> >>)) }

\* proc.returncode is the child's: 0 for the command "c" when it ends in
\* time; for a command that fails a status of its own such as 1, or -N when
\* signal N ended the shell (`kill -4 $$`)
execute_shell_command(a, args, fs) ==
    LET command == Get(args, "command")
        working_directory == GetOr(args, "working_directory", JNull)
        seconds == Fmt(GetOr(args, "timeout_seconds", JInt(60)))
        result(how, stderr, exit_code, error) ==
            Returns(how, fs, JDict(<< <<"stdout", JStr("")>>, <<"stderr", stderr>>,
                                      <<"exit_code", exit_code>>, <<"error", error>> >>))
    IN  IF Truthy(working_directory) /\ working_directory.t # "str" /\ a = "toyagent"
        THEN { Raises("type", fs, "TypeError") }
        ELSE IF Truthy(working_directory)
                /\ ~(working_directory.t = "str" /\ IsDir(fs, working_directory.v))
        THEN { result("missing", JStr(""), JInt(-2),
                      JStr("Working directory not found: " \o Fmt(working_directory))) }
        ELSE IF command.t # "str"
        THEN { result("type", JStr("TypeError"), JInt(-3),
                      JStr(IF a = "toyagent" THEN "Execution failed: TypeError"
                           ELSE "Failed to execute command: TypeError")) }
        ELSE IF command.v # "c"
        THEN { result("nonzero", JStr(""), JInt(1), JNull),
               result("signal", JStr(""), JInt(-4), JNull) }
        ELSE { result("ok", JStr(""), JInt(0), JNull),
               result("timeout", JStr(""), JInt(-1),
                      JStr(IF a = "toyagent" THEN "Timeout (" \o seconds \o "s)"
                           ELSE "Command timed out after " \o seconds \o " seconds.")) }

\* the outcomes of TOOL_EXECUTORS[name](**args) once the call has bound
Executor(a, name, args, fs) ==
    LET f == ExecutorFunc(a, name)
    IN  CASE f = "execute_shell_command" -> execute_shell_command(a, args, fs)
          [] f = "read_file" -> read_file(a, args, fs)
          [] f = "write_file" -> write_file(a, args, fs)
          [] f = "copy_file" -> copy_file(a, args, fs)
          [] f = "list_directory" -> list_directory(a, args, fs)
          [] f = "create_directory" -> create_directory(a, args, fs)
          [] f = "fetch_web_page" -> fetch_web_page(a, args, fs)
          [] f = "ask_user" -> ask_user(a, args, fs)
          [] f = "execute_python_code" -> execute_python_code(a, args, fs)

(***************************************************************************)
(* print_tool_call_request: json.loads of the raw arguments, and what      *)
(* toyagent does with the value to show execute_python_code's code.        *)
(***************************************************************************)
\* Python's None; json.loads gives it for the text null
None == JNull

\* "code" in s, for the strings of the model
StrContainsCode(s) ==
    s \in { "code", "exit_code", "No code provided to execute.",
            "Unsupported function: execute_python_code" }

\* the exception `"code" in args` raises, or "" when it evaluates
CodeInRaises(args) ==
    IF args.t \in {"null", "int", "bool"} THEN "TypeError" ELSE ""

\* "code" in args
CodeIn(args) ==
    CASE args.t = "dict" -> HasKey(args, "code")
      [] args.t = "list" -> \E i \in 1..Len(args.v) : args.v[i] = JStr("code")
      [] args.t = "str"  -> StrContainsCode(args.v)
      [] OTHER -> FALSE

\* the exception the display of the code raises, or "": args.copy(), then
\* args_display["code"].replace(...)
CodeDisplayRaises(args) ==
    CASE args.t = "str"  -> "AttributeError"
      [] args.t = "list" -> "TypeError"
      [] args.t = "dict" /\ Get(args, "code").t # "str" -> "AttributeError"
      [] OTHER -> ""

\* variant of ShowArguments in which a payload that does not parse is taken
\* as the empty object
ShowArguments_EmptyOnError(a, name, args) ==
    IF IsError(args) THEN [exc |-> "", args |-> JDict(<<>>)]
    ELSE [exc |-> "", args |-> args]

\* what print_tool_call_request does once json.loads has given args
ShowArguments(a, name, args) ==
    IF IsError(args) THEN [exc |-> "", args |-> None]
    ELSE IF a = "toyagent" /\ name = "execute_python_code"
    THEN IF CodeInRaises(args) # "" THEN [exc |-> CodeInRaises(args), args |-> None]
         ELSE IF CodeIn(args) /\ CodeDisplayRaises(args) # ""
         THEN [exc |-> CodeDisplayRaises(args), args |-> None]
         ELSE [exc |-> "", args |-> args]
    ELSE [exc |-> "", args |-> args]

\* [exc, args]: the exception that escapes (or ""), and the value returned
print_tool_call_request(a, name, raw) == ShowArguments(a, name, json_loads(raw))

(***************************************************************************)
(* The approval check of process_api_response: the action label and the    *)
(* detail it hands to ask_for_approval.                                    *)
(***************************************************************************)
\* str(v), as a sequence of tokens
PyStr(v) ==
    CASE v.t = "null" -> <<"None">>
      [] v.t = "bool" -> << IF v.v THEN "True" ELSE "False" >>
      [] v.t = "int"  -> << ToString(v.v) >>
      [] v.t = "str"  -> << v.v >>
      [] OTHER -> <<"repr">> \o json_dumps(v)

\* toyagent.py: details_to_show
details_to_show(name, parsed, approval_details) ==
    IF name = "execute_python_code" THEN PyStr(approval_details)
    ELSE IF approval_details.t # "str" THEN json_dumps(parsed)
    ELSE PyStr(approval_details)

\* variant of ToyagentApproval that shows the whole argument set
ToyagentApproval_FullArguments(name, parsed) ==
    [exc |-> "", desc |-> "Execute " \o name, details |-> json_dumps(parsed)]

\* toyagent.py: info, action_desc, detail_arg_name, approval_details
ToyagentApproval(name, parsed) ==
    IF name \notin DOMAIN DANGEROUS_TOOL_INFO
    THEN [exc |-> "", desc |-> "Execute " \o name, details |-> json_dumps(parsed)]
    ELSE IF parsed.t # "dict"
    THEN [exc |-> "AttributeError", desc |-> "", details |-> <<>>]
    ELSE [exc |-> "", desc |-> DANGEROUS_TOOL_INFO[name].desc,
          details |-> details_to_show(name, parsed,
                          GetOr(parsed, DANGEROUS_TOOL_INFO[name].detail_arg,
                                JStr("<missing detail>")))]

\* pycodex.py: the if/elif chain on function_name
PycodexApproval(name, parsed) ==
    LET got(desc, key, missing) ==
            IF parsed.t # "dict"
            THEN [exc |-> "AttributeError", desc |-> "", details |-> <<>>]
            ELSE [exc |-> "", desc |-> desc,
                  details |-> PyStr(GetOr(parsed, key, JStr(missing)))]
    IN  CASE name = "shell_exec" ->
                got("Execute Shell Command", "command", "<missing command>")
          [] name = "write_file" -> got("Write to File", "path", "<missing path>")
          [] name = "create_directory" ->
                got("Create Directory", "path", "<missing path>")
          [] name = "fetch_web_page" -> got("Fetch Web Page", "url", "<missing url>")
          [] OTHER -> [exc |-> "", desc |-> "Execute " \o name,
                       details |-> json_dumps(parsed)]

Approval(a, name, parsed) ==
    IF a = "toyagent" THEN ToyagentApproval(name, parsed)
    ELSE PycodexApproval(name, parsed)

(***************************************************************************)
(* The envelopes the dispatcher builds itself.                             *)
(***************************************************************************)
EXIT_DENIED == -4
EXIT_INVALID_ARGUMENTS == -5
EXIT_UNSUPPORTED == -6
EXIT_EXECUTION_FAILED == -7

ErrorEnvelope(msg, code) ==
    JDict(<< <<"error", JStr(msg)>>, <<"exit_code", JInt(code)>> >>)

\* variant of UnsupportedEnvelope that leaves the name out of the message
UnsupportedEnvelope_NoName(name) ==
    ErrorEnvelope("Unsupported function", EXIT_UNSUPPORTED)


UnsupportedEnvelope(name) ==
    ErrorEnvelope("Unsupported function: " \o name, EXIT_UNSUPPORTED)

InvalidArgumentsEnvelope ==
    ErrorEnvelope("Invalid arguments provided to tool.", EXIT_INVALID_ARGUMENTS)

\* variant of DeniedEnvelope without the exit_code
DeniedEnvelope_NoExitCode == JDict(<< <<"error", JStr("Action denied by user.")>> >>)


DeniedEnvelope == ErrorEnvelope("Action denied by user.", EXIT_DENIED)

\* variant of ExecutionFailedEnvelope with the exit code of a denial
ExecutionFailedEnvelope_DeniedCode(exc) ==
    ErrorEnvelope("Tool execution failed: " \o exc, EXIT_DENIED)


ExecutionFailedEnvelope(exc) ==
    ErrorEnvelope("Tool execution failed: " \o exc, EXIT_EXECUTION_FAILED)

\* variant of ToolMessage that loses the id of the call
ToolMessage_NoCallId(call, tool_content) ==
    [role |-> "tool", tool_call_id |-> 0, name |-> call.name,
     content |-> json_dumps(tool_content)]

\* the tool message of one call: result_data
ToolMessage(call, tool_content) ==
    [role |-> "tool", tool_call_id |-> call.id, name |-> call.name,
     content |-> json_dumps(tool_content)]

\* no branch taken yet
NoStep ==
    [step |-> "", exc |-> "", env |-> None, parsed |-> None, desc |-> "",
     details |-> <<>>]

\* the approval check, given what Approval worked out
ApprovalStep(parsed_args, ap) ==
    IF ap.exc # "" THEN [NoStep EXCEPT !.step = "crash", !.exc = ap.exc]
    ELSE [NoStep EXCEPT !.step = "ask", !.parsed = parsed_args,
                        !.desc = ap.desc, !.details = ap.details]

\* variant of DispatchPrinted without the approval gate
DispatchPrinted_NoGate(a, name, printed) ==
    IF printed.exc # "" THEN [NoStep EXCEPT !.step = "crash", !.exc = printed.exc]
    ELSE IF name \notin TOOL_EXECUTORS(a)
    THEN [NoStep EXCEPT !.step = "result", !.env = UnsupportedEnvelope(name)]
    ELSE IF printed.args = None
    THEN [NoStep EXCEPT !.step = "result", !.env = InvalidArgumentsEnvelope]
    ELSE [NoStep EXCEPT !.step = "run", !.parsed = printed.args]

\* variant of DispatchPrinted in which an approval also covers the later calls
\* of the same tool
DispatchPrinted_Remembers(a, name, printed) ==
    IF printed.exc # "" THEN [NoStep EXCEPT !.step = "crash", !.exc = printed.exc]
    ELSE IF name \notin TOOL_EXECUTORS(a)
    THEN [NoStep EXCEPT !.step = "result", !.env = UnsupportedEnvelope(name)]
    ELSE IF printed.args = None
    THEN [NoStep EXCEPT !.step = "result", !.env = InvalidArgumentsEnvelope]
    ELSE IF /\ name \in DANGEROUS_TOOLS(a)
            /\ \A k \in 1..Len(trace) : ~(trace[k].ev = "approve" /\ trace[k].name = name)
    THEN ApprovalStep(printed.args, Approval(a, name, printed.args))
    ELSE [NoStep EXCEPT !.step = "run", !.parsed = printed.args]

\* variant of DispatchPrinted that acts on the parse failure before the lookup
DispatchPrinted_ParseFirst(a, name, printed) ==
    IF printed.exc # "" THEN [NoStep EXCEPT !.step = "crash", !.exc = printed.exc]
    ELSE IF printed.args = None
    THEN [NoStep EXCEPT !.step = "result", !.env = InvalidArgumentsEnvelope]
    ELSE IF name \notin TOOL_EXECUTORS(a)
    THEN [NoStep EXCEPT !.step = "result", !.env = UnsupportedEnvelope(name)]
    ELSE IF name \in DANGEROUS_TOOLS(a)
    THEN ApprovalStep(printed.args, Approval(a, name, printed.args))
    ELSE [NoStep EXCEPT !.step = "run", !.parsed = printed.args]

\* the if/elif/else of the loop body, given what print_tool_call_request did
DispatchPrinted(a, name, printed) ==
    IF printed.exc # "" THEN [NoStep EXCEPT !.step = "crash", !.exc = printed.exc]
    ELSE IF name \notin TOOL_EXECUTORS(a)
    THEN [NoStep EXCEPT !.step = "result", !.env = UnsupportedEnvelope(name)]
    ELSE IF printed.args = None
    THEN [NoStep EXCEPT !.step = "result", !.env = InvalidArgumentsEnvelope]
    ELSE IF name \in DANGEROUS_TOOLS(a)
    THEN ApprovalStep(printed.args, Approval(a, name, printed.args))
    ELSE [NoStep EXCEPT !.step = "run", !.parsed = printed.args]

\* the branch the loop body takes for one call, before any prompt:
\*   "crash"   an exception escapes process_api_response
\*   "result"  the envelope is decided without approval or executor
\*   "ask"     ask_for_approval is called
\*   "run"     the executor is called without approval
Dispatch(a, call) ==
    DispatchPrinted(a, call.name,
                    print_tool_call_request(a, call.name, call.arguments))

(***************************************************************************)
(* The model stub: what a response of the model may hold.                  *)
(***************************************************************************)
\* the well-formed arguments of each tool, as the tokens of their JSON text
ObjectArguments(name) ==
    CASE name \in {"read_file", "create_directory"} ->
            JDict(<< <<"path", JStr("f")>> >>)
      [] name = "write_file" ->
            JDict(<< <<"path", JStr("f")>>, <<"content", JStr("c")>> >>)
      [] name = "copy_file" ->
            JDict(<< <<"source_path", JStr("f")>>, <<"destination_path", JStr("g")>> >>)
      [] name = "fetch_web_page" -> JDict(<< <<"url", JStr("http://h")>> >>)
      [] name = "ask_user" -> JDict(<< <<"question", JStr("q")>> >>)
      [] name = "execute_python_code" -> JDict(<< <<"code", JStr("c")>> >>)
      [] name \in {"execute_shell_command", "shell_exec"} ->
            JDict(<< <<"command", JStr("c")>> >>)
      [] OTHER -> JDict(<< <<"x", JStr("f")>> >>)

\* the same object with every value replaced by the number 5
BadTypeArguments(name) ==
    LET d == ObjectArguments(name)
    IN  JDict([i \in 1..Len(d.v) |-> <<d.v[i][1], JInt(5)>>])

\* the same object asking for other content and saying what to do with a
\* path that exists
OverwriteArguments(name, content, overwrite) ==
    LET d == ObjectArguments(name)
    IN  JDict([i \in 1..Len(d.v) |->
                  IF d.v[i][1] = "content" THEN <<"content", JStr(content)>> ELSE d.v[i]]
              \o << <<"overwrite", JBool(overwrite)>> >>)

\* the raw argument payload of each kind the stub may send
RawArguments(name, kind) ==
    CASE kind = "object"  -> json_dumps(ObjectArguments(name))
      [] kind = "overwrite" -> json_dumps(OverwriteArguments(name, "new", TRUE))
      [] kind = "keep"    -> json_dumps(OverwriteArguments(name, "new", FALSE))
      [] kind = "surrogate" ->
            json_dumps(OverwriteArguments(name, LoneSurrogate, TRUE))
      [] kind = "badtype" -> json_dumps(BadTypeArguments(name))
      [] kind = "failing" ->
            json_dumps(CASE name = "read_file" -> JDict(<< <<"path", JStr("g")>> >>)
                         [] name = "list_directory" -> JDict(<< <<"path", JStr("f")>> >>)
                         [] name = "fetch_web_page" ->
                               JDict(<< <<"url", JStr("ftp://h")>> >>)
                         [] name \in {"execute_shell_command", "shell_exec"} ->
                               JDict(<< <<"command", JStr("x")>> >>)
                         [] name = "execute_python_code" ->
                               JDict(<< <<"code", JStr("x")>> >>)
                         [] OTHER -> ObjectArguments(name))
      [] kind = "empty"   -> <<"{", "}">>
      [] kind = "garbage" -> <<"{", "oops">>
      [] kind = "null"    -> <<"null">>
      [] kind = "array"   -> <<"[", "]">>
      [] kind = "string"  -> << Quote("code") >>
      [] kind = "number"  -> <<"5">>
      [] kind = "bool"    -> <<"true">>

\* a stub that sends few kinds of call and may send many of them
NarrowStub ==
    [names |-> {"write_file", "read_file"},
     kinds |-> {"object", "garbage", "empty"},
     contents |-> {"None", "", "answer"},
     call_contents |-> {"None"},
     approval_lines |-> { <<"y">>, <<"n">> },
     user_events |-> { [kind |-> "line", text |-> <<"t">>],
                       [kind |-> "line", text |-> <<>>] },
     files |-> { [f |-> File("old"), g |-> Absent] },
     budget |-> MaxToolCalls]

\* a stub that sends every kind of call and few of them
WideStub ==
    [names |-> {"write_file", "read_file", "copy_file", "fetch_web_page",
                "list_directory", "execute_python_code", "no_such_tool"},
     kinds |-> {"object", "badtype", "empty", "garbage", "null", "array",
                "string", "number", "bool"},
     contents |-> {"None"},
     call_contents |-> {"None"},
     approval_lines |-> { <<"y">>, <<>> },
     user_events |-> { [kind |-> "line", text |-> <<"t">>], [kind |-> "EOFError"] },
     files |-> { [f |-> File("old"), g |-> Absent] },
     budget |-> MaxWideCalls]

\* a stub that sends one kind of call, to an operator who types anything
ApprovalStub ==
    [names |-> {"write_file"},
     kinds |-> {"object"},
     contents |-> {"None"},
     call_contents |-> {"None", "answer"},
     approval_lines |-> ApprovalLines,
     user_events |-> { [kind |-> "line", text |-> <<"t">>] },
     files |-> { [f |-> File("old"), g |-> Absent] },
     budget |-> MaxApprovalCalls]

\* a stub whose calls make executors raise
RaiseStub ==
    [names |-> {"fetch_web_page", "read_file"},
     kinds |-> {"object", "badtype", "empty"},
     contents |-> {"None"},
     call_contents |-> {"None"},
     approval_lines |-> { <<"y">> },
     user_events |-> { [kind |-> "line", text |-> <<"t">>] },
     files |-> { [f |-> File("old"), g |-> Absent] },
     budget |-> MaxRaiseCalls]

\* a stub that sends one kind of call, in a session whose operator types
\* anything at the session prompt
SessionStub ==
    [names |-> {"write_file"},
     kinds |-> {"object"},
     contents |-> {"None", "", "answer", "hello"},
     call_contents |-> {"None", "answer"},
     approval_lines |-> { <<"y">> },
     user_events |-> UserInputEvents,
     files |-> { [f |-> File("old"), g |-> Absent] },
     budget |-> MaxSessionCalls]

\* a stub whose calls run child processes, fetch pages and ask the operator
ToolsStub ==
    [names |-> {"ask_user", "execute_shell_command", "shell_exec",
                "execute_python_code", "fetch_web_page"},
     kinds |-> {"object"},
     contents |-> {"None"},
     call_contents |-> {"None"},
     approval_lines |-> { <<"y">> },
     user_events |-> { [kind |-> "line", text |-> <<"t">>] },
     files |-> { [f |-> File("old"), g |-> Absent] },
     budget |-> MaxToolsCalls]

\* a stub whose calls stop coming before the requests do: sooner or later it
\* answers without tool calls
FairStub ==
    [names |-> {"list_directory", "write_file"},
     kinds |-> {"empty"},
     contents |-> {"None", "answer"},
     call_contents |-> {"None"},
     approval_lines |-> { <<"y">>, <<"n">> },
     user_events |-> { [kind |-> "line", text |-> <<"t">>] },
     files |-> { [f |-> File("old"), g |-> Absent] },
     budget |-> MaxFairCalls]

\* a stub that reads and writes one path of a working directory in which
\* the path may be missing, a directory or a file
FilesStub ==
    [names |-> {"write_file", "read_file", "copy_file", "list_directory",
                "create_directory"},
     kinds |-> {"object", "overwrite", "keep", "surrogate", "failing"},
     contents |-> {"None"},
     call_contents |-> {"None"},
     approval_lines |-> { <<"y">> },
     user_events |-> { [kind |-> "line", text |-> <<"t">>] },
     files |-> { [f |-> n, g |-> Absent] : n \in {Absent, Dir, File("old")} },
     budget |-> MaxFilesCalls]

\* a stub whose calls meet the failures executors expect: a path that is
\* missing, a URL of another scheme, a host that does not answer, a child
\* process that exits with a status other than 0
FailureStub ==
    [names |-> {"read_file", "fetch_web_page", "execute_shell_command", "shell_exec",
                "execute_python_code"},
     kinds |-> {"object", "failing"},
     contents |-> {"None"},
     call_contents |-> {"None"},
     approval_lines |-> { <<"y">> },
     user_events |-> { [kind |-> "line", text |-> <<"t">>] },
     files |-> { [f |-> File("old"), g |-> Absent] },
     budget |-> MaxFailureCalls]

\* a stub that sends one dangerous tool's call again and again, to an
\* operator who approves some and denies others
GateStub ==
    [names |-> {"write_file"},
     kinds |-> {"object", "garbage"},
     contents |-> {"None"},
     call_contents |-> {"None"},
     approval_lines |-> { <<"y">>, <<"n">> },
     user_events |-> { [kind |-> "line", text |-> <<"t">>] },
     files |-> { [f |-> File("old"), g |-> Absent] },
     budget |-> MaxGateCalls]

\* the tool-call lists of n calls the stub may send, ids counting on from id0
RECURSIVE ToolCallLists(_, _, _)
ToolCallLists(st, id0, n) ==
    IF n = 0 THEN { <<>> }
    ELSE { Append(front, [id |-> id0 + n, name |-> nm,
                          arguments |-> RawArguments(nm, k)]) :
               front \in ToolCallLists(st, id0, n - 1),
               nm \in st.names, k \in st.kinds }

(***************************************************************************)
(* The state machine.                                                      *)
(***************************************************************************)
\* the locals of the loop body when no call is in process
NoCall ==
    [id |-> 0, name |-> "", arguments |-> <<>>, parsed |-> None, asked |-> FALSE,
     answer |-> "none", invoked |-> FALSE, desc |-> "", details |-> <<>>,
     env |-> None, exc |-> "", how |-> "", returned |-> None]

\* create_system_prompt / the literal system message of pycodex
SystemMessage == [role |-> "system", content |-> <<"s", "y", "s">>]

UserMessage(text) == [role |-> "user", content |-> text]

\* response_message.model_dump(exclude_unset=True)
AssistantMessage(content, calls) ==
    IF calls = <<>> THEN [role |-> "assistant", content |-> content]
    ELSE [role |-> "assistant", content |-> content, tool_calls |-> calls]

\* the single-shot task
InitialPrompt == <<"t">>

\* nothing has been read at the session prompt
NoInput == [kind |-> "none"]

\* variant of TOOLS_LIST without the schema of ask_user
TOOLS_LIST_NoAskUser(a) ==
    IF a = "toyagent"
    THEN << "execute_python_code", "execute_shell_command", "read_file",
            "write_file", "copy_file", "list_directory", "create_directory",
            "fetch_web_page" >>
    ELSE << "shell_exec", "read_file", "write_file", "copy_file",
            "list_directory", "create_directory", "fetch_web_page" >>

\* TOOLS_LIST: the names of the schemas, in the order listed
TOOLS_LIST(a) ==
    IF a = "toyagent"
    THEN << "execute_python_code", "execute_shell_command", "read_file",
            "write_file", "copy_file", "list_directory", "create_directory",
            "fetch_web_page", "ask_user" >>
    ELSE << "shell_exec", "read_file", "write_file", "copy_file",
            "list_directory", "create_directory", "fetch_web_page", "ask_user" >>

\* variant of Request whose sampling depends on how many requests were sent
Request_Drifting(a, messages) ==
    IF a = "toyagent"
    THEN [model |-> "gpt-4o-mini", messages |-> messages,
          tools |-> TOOLS_LIST(a), tool_choice |-> "auto",
          temperature |-> IF counters.requests = 0 THEN "0.6" ELSE "0.9",
          top_p |-> "0.9"]
    ELSE [model |-> "gpt-4o-mini", messages |-> messages,
          tools |-> IF counters.requests = 0 THEN TOOLS_LIST(a) ELSE <<>>,
          tool_choice |-> "auto"]

\* the keyword arguments of client.chat.completions.create
Request(a, messages) ==
    IF a = "toyagent"
    THEN [model |-> "gpt-4o-mini", messages |-> messages,
          tools |-> TOOLS_LIST(a), tool_choice |-> "auto",
          temperature |-> "0.6", top_p |-> "0.9"]
    ELSE [model |-> "gpt-4o-mini", messages |-> messages,
          tools |-> TOOLS_LIST(a), tool_choice |-> "auto"]

\* variant of Surfaced that shows nothing
Surfaced_Nothing(content) == [ev |-> "silent", id |-> 0, name |-> ""]

\* what process_api_response shows of a response without tool calls:
\* print_assistant_message(content) when the content is truthy
Surfaced(content) ==
    IF content \in {"None", ""} THEN [ev |-> "silent", id |-> 0, name |-> ""]
    ELSE [ev |-> "print", id |-> 0, name |-> content]

\* variant of CallAt that walks the list from its end
CallAt_Reversed(calls, i) == calls[Len(calls) + 1 - i]

\* the call the for loop's i-th iteration is about
CallAt(calls, i) == calls[i]

\* variant of SessionStep that compares the line as typed, without strip()
SessionStep_AsTyped(ev) ==
    IF ev.kind # "line" THEN "break"
    ELSE IF lower(ev.text) \in { <<"q", "u", "i", "t">>, <<"e", "x", "i", "t">> }
    THEN "break"
    ELSE IF ev.text = <<>> THEN "continue"
    ELSE "send"

\* variant of SessionStep that asks again when input() raises
SessionStep_AsksAgain(ev) ==
    IF ev.kind # "line" THEN "continue"
    ELSE IF lower(strip(ev.text)) \in { <<"q", "u", "i", "t">>, <<"e", "x", "i", "t">> }
    THEN "break"
    ELSE IF strip(ev.text) = <<>> THEN "continue"
    ELSE "send"

\* run_interactive: what one input() at the session prompt leads to
\*   "break"     the while loop ends
\*   "continue"  the prompt is shown again
\*   "send"      the user message is appended and run_loop is called
SessionStep(ev) ==
    IF ev.kind # "line" THEN "break"
    ELSE IF lower(strip(ev.text)) \in { <<"q", "u", "i", "t">>, <<"e", "x", "i", "t">> }
    THEN "break"
    ELSE IF strip(ev.text) = <<>> THEN "continue"
    ELSE "send"

InitWith(st) ==
    /\ agent \in {"toyagent", "pycodex"}
    /\ mode \in {"interactive", "single"}
    /\ stub = st
    /\ pc = IF mode = "interactive" THEN "input" ELSE "run_loop"
    /\ history = IF mode = "interactive" THEN << SystemMessage >>
                 ELSE << SystemMessage, UserMessage(InitialPrompt) >>
    /\ tool_calls = <<>>
    /\ idx = 0
    /\ tool_results = <<>>
    /\ cur = NoCall
    /\ lines = <<>>
    /\ trace = <<>>
    /\ counters = [requests |-> 0, calls |-> 0, user_lines |-> 0]
    /\ sent = <<>>
    /\ user_input = NoInput
    /\ files \in st.files

Init == InitWith(NarrowStub)

InitWide == InitWith(WideStub)

InitApproval == InitWith(ApprovalStub)

InitRaise == InitWith(RaiseStub)

InitSession == InitWith(SessionStub)

InitTools == InitWith(ToolsStub)

InitFiles == InitWith(FilesStub)

InitFair == InitWith(FairStub)

InitFailure == InitWith(FailureStub)

InitGate == InitWith(GateStub)

\* variant of AfterLoop in which the session ends with the turn
AfterLoop_Exits == "exited"

\* variant of AfterLoop in which the loop goes on to another model call
AfterLoop_Continues == "run_loop"

\* variant of AfterLoop in which every turn is followed by the session prompt
AfterLoop_Prompts == "input"

\* where control goes when run_loop's while ends
AfterLoop == IF mode = "interactive" THEN "input" ELSE "exited"

\* an event of the session about a tool call
Event(ev, call) == [ev |-> ev, id |-> call.id, name |-> call.name]

\* an event of the session about no tool call
Note(ev) == [ev |-> ev, id |-> 0, name |-> ""]

\* variant of Returned that gives an envelope with an error an exit code
Returned_AddsExitCode(env) ==
    IF HasKey(env, "error") /\ Get(env, "error") # JNull /\ ~HasKey(env, "exit_code")
    THEN JDict(env.v \o << <<"exit_code", JInt(EXIT_EXECUTION_FAILED)>> >>)
    ELSE env

\* tool_content = executor_func(**parsed_args, **kwargs): what the executor
\* returned is the call's content as it is
Returned(env) == env

\* variant of Finish that assigns the tool messages to the history rather
\* than extending it
Finish_Assigns(call, tool_content) ==
    LET results == Append(tool_results, ToolMessage(call, tool_content))
    IN  IF idx < Len(tool_calls)
        THEN /\ tool_results' = results
             /\ idx' = idx + 1
             /\ pc' = "dispatch"
             /\ UNCHANGED <<history, tool_calls>>
        ELSE /\ history' = results
             /\ tool_results' = <<>>
             /\ tool_calls' = <<>>
             /\ idx' = 0
             /\ pc' = "run_loop"

\* variant of Finish that leaves the for loop after the first call
Finish_FirstOnly(call, tool_content) ==
    /\ history' = history \o <<ToolMessage(call, tool_content)>>
    /\ tool_results' = <<>>
    /\ tool_calls' = <<>>
    /\ idx' = 0
    /\ pc' = "run_loop"

\* the end of the loop body for one call: the tool message is collected, and
\* after the last call history.extend(tool_results) and return True
Finish(call, tool_content) ==
    LET results == Append(tool_results, ToolMessage(call, tool_content))
    IN  IF idx < Len(tool_calls)
        THEN /\ tool_results' = results
             /\ idx' = idx + 1
             /\ pc' = "dispatch"
             /\ UNCHANGED <<history, tool_calls>>
        ELSE /\ history' = history \o results
             /\ tool_results' = <<>>
             /\ tool_calls' = <<>>
             /\ idx' = 0
             /\ pc' = "run_loop"

\* run_interactive: one pass of its while loop up to run_loop
ReadUserInput ==
    /\ pc = "input"
    /\ counters.user_lines < MaxUserLines
    /\ \E ev \in stub.user_events :
          /\ counters' = [counters EXCEPT !.user_lines = @ + 1]
          /\ user_input' = ev
          /\ CASE SessionStep(ev) = "break" ->
                     /\ pc' = "exited"
                     /\ UNCHANGED history
                [] SessionStep(ev) = "continue" ->
                     /\ pc' = "input"
                     /\ UNCHANGED history
                [] SessionStep(ev) = "send" ->
                     /\ history' = Append(history, UserMessage(strip(ev.text)))
                     /\ pc' = "run_loop"
    /\ cur' = NoCall
    /\ lines' = <<>>
    /\ UNCHANGED <<agent, mode, stub, tool_calls, idx, tool_results, trace, sent, files>>

\* the responses the stub may give to the next request
ModelResponses ==
    { [kind |-> "error"], [kind |-> "no_choices"] }
      \cup { [kind |-> "message", content |-> c, tool_calls |-> <<>>] :
                 c \in stub.contents }
      \cup { [kind |-> "message", content |-> c, tool_calls |-> calls] :
                 c \in stub.call_contents,
                 calls \in UNION { ToolCallLists(stub, counters.calls, n) :
                                       n \in 1..(stub.budget - counters.calls) } }

\* run_loop: call_api, and process_api_response up to its for loop
CallApi ==
    /\ pc = "run_loop"
    /\ counters.requests < MaxRequests
    /\ \E response \in ModelResponses :
          /\ sent' = Append(sent, [request |-> Request(agent, history),
                                   response |-> response])
          /\ CASE response.kind = "error" ->
                     \* call_api printed the error and returned None
                     /\ pc' = AfterLoop
                     /\ counters' = [counters EXCEPT !.requests = @ + 1]
                     /\ trace' = Append(trace, Note("api_error"))
                     /\ UNCHANGED <<history, tool_calls, idx>>
                [] response.kind = "no_choices" ->
                     \* response.choices[0] raises IndexError
                     /\ pc' = "crashed"
                     /\ counters' = [counters EXCEPT !.requests = @ + 1]
                     /\ trace' = Append(trace, Note("index_error"))
                     /\ UNCHANGED <<history, tool_calls, idx>>
                [] response.kind = "message" ->
                     /\ history' = Append(history,
                            AssistantMessage(response.content, response.tool_calls))
                     /\ counters' = [counters EXCEPT
                                         !.requests = @ + 1,
                                         !.calls = @ + Len(response.tool_calls)]
                     /\ tool_calls' = response.tool_calls
                     /\ IF response.tool_calls = <<>>
                        THEN /\ pc' = AfterLoop
                             /\ idx' = 0
                             /\ trace' = Append(trace, Surfaced(response.content))
                        ELSE /\ pc' = "dispatch"
                             /\ idx' = 1
                             /\ trace' = Append(trace, Note("tool_calls"))
    /\ tool_results' = <<>>
    /\ cur' = NoCall
    /\ lines' = <<>>
    /\ UNCHANGED <<agent, mode, stub, user_input, files>>

\* the locals of the loop body once the branch d is known
Locals(call, d) ==
    [NoCall EXCEPT !.id = call.id, !.name = call.name,
                   !.arguments = call.arguments, !.parsed = d.parsed,
                   !.desc = d.desc, !.details = d.details]

\* the for loop's body for tool_calls[idx], up to the approval prompt, the
\* executor call or the end of the body
DispatchCall ==
    /\ pc = "dispatch"
    /\ \E call \in {CallAt(tool_calls, idx)} :
       \E d \in {Dispatch(agent, call)} :
          CASE d.step = "crash" ->
                  /\ pc' = "crashed"
                  /\ cur' = [Locals(call, d) EXCEPT !.exc = d.exc]
                  /\ trace' = Append(trace, Event("crash", call))
                  /\ UNCHANGED <<history, tool_calls, idx, tool_results>>
            [] d.step = "result" ->
                  /\ cur' = [Locals(call, d) EXCEPT !.env = d.env]
                  /\ trace' = Append(trace, Event("short_circuit", call))
                  /\ Finish(call, d.env)
            [] d.step = "ask" ->
                  /\ pc' = "approval"
                  /\ cur' = [Locals(call, d) EXCEPT !.asked = TRUE]
                  /\ trace' = Append(trace, Event("ask", call))
                  /\ UNCHANGED <<history, tool_calls, idx, tool_results>>
            [] d.step = "run" ->
                  /\ pc' = "execute"
                  /\ cur' = Locals(call, d)
                  /\ UNCHANGED <<history, tool_calls, idx, tool_results, trace>>
    /\ lines' = <<>>
    /\ UNCHANGED <<agent, mode, stub, counters, sent, user_input, files>>

\* the lines read so far that made ask_for_approval's loop go round
InvalidLines == { i \in 1..Len(lines) : AskStep(lines[i]) = "again" }

\* ask_for_approval: one input() of its loop, and on a decision the rest of
\* the loop body of process_api_response up to the executor call
ApprovalInput ==
    /\ pc = "approval"
    /\ \E ev \in InputEvents(stub.approval_lines) :
          LET call == CallAt(tool_calls, idx)
              r == AskStep(ev)
          IN  /\ lines' = Append(lines, ev)
              /\ CASE r = "again" ->
                        /\ Cardinality(InvalidLines) < MaxInvalidLines
                        /\ UNCHANGED <<pc, cur, trace, history, tool_calls, idx,
                                       tool_results>>
                   [] r = "True" ->
                        /\ pc' = "execute"
                        /\ cur' = [cur EXCEPT !.answer = "True"]
                        /\ trace' = Append(trace, Event("approve", call))
                        /\ UNCHANGED <<history, tool_calls, idx, tool_results>>
                   [] r = "False" ->
                        /\ cur' = [cur EXCEPT !.answer = "False",
                                              !.env = DeniedEnvelope]
                        /\ trace' = Append(trace, Event("deny", call))
                        /\ Finish(call, DeniedEnvelope)
    /\ UNCHANGED <<agent, mode, stub, counters, sent, user_input, files>>

\* the try block: executor_func(**parsed_args, **kwargs), its except clause,
\* and the rest of the loop body
Execute ==
    /\ pc = "execute"
    /\ LET call == CallAt(tool_calls, idx)
       IN  IF ~Binds(agent, cur.name, cur.parsed)
           THEN LET tool_content == ExecutionFailedEnvelope("TypeError")
                IN  /\ cur' = [cur EXCEPT !.env = tool_content]
                    /\ trace' = Append(trace, Event("bind_error", call))
                    /\ Finish(call, tool_content)
                    /\ UNCHANGED files
           ELSE \E out \in Executor(agent, cur.name, cur.parsed, files) :
                   LET tool_content ==
                           IF out.kind = "return" THEN Returned(out.env)
                           ELSE ExecutionFailedEnvelope(out.exc)
                   IN  /\ cur' = [cur EXCEPT !.invoked = TRUE, !.env = tool_content,
                                             !.how = out.how, !.returned = out.env]
                       /\ trace' = Append(trace,
                              Event(IF out.kind = "return" THEN "invoke"
                                    ELSE "invoke_raise", call))
                       /\ files' = out.files
                       /\ Finish(call, tool_content)
    /\ UNCHANGED <<agent, mode, stub, counters, lines, sent, user_input>>

Next ==
    \/ ReadUserInput
    \/ CallApi
    \/ DispatchCall
    \/ ApprovalInput
    \/ Execute

\* the narrow stub: long sessions of few kinds of call
Spec == Init /\ [][Next]_vars

\* the wide stub: every kind of call, few of them
SpecWide == InitWide /\ [][Next]_vars

\* the approval stub: one kind of call, every kind of operator input
SpecApproval == InitApproval /\ [][Next]_vars

\* the raising stub: calls whose executors raise
SpecRaise == InitRaise /\ [][Next]_vars

\* the session stub: every kind of line at the session prompt
SpecSession == InitSession /\ [][Next]_vars

\* the fair stub with a model that answers, a dispatcher that goes on, and
\* approval prompts and executors that return
SpecFair ==
    /\ InitFair /\ [][Next]_vars
    /\ WF_vars(CallApi) /\ WF_vars(DispatchCall)
    /\ WF_vars(ApprovalInput) /\ WF_vars(Execute)

\* the tools stub: child processes, the network and the operator's answers
SpecTools == InitTools /\ [][Next]_vars

\* the files stub: reads and writes in each working directory
SpecFiles == InitFiles /\ [][Next]_vars

\* the failure stub: the failures executors expect
SpecFailure == InitFailure /\ [][Next]_vars

\* the gate stub: the same dangerous call, approved or denied each time
SpecGate == InitGate /\ [][Next]_vars

(***************************************************************************)
(* What the properties read off a state.                                   *)
(***************************************************************************)
\* the tool messages collected in this turn or appended to the history
ToolMessages ==
    { tool_results[i] : i \in 1..Len(tool_results) }
      \cup { history[i] : i \in { j \in 1..Len(history) : history[j].role = "tool" } }

\* the assistant messages of the history that list tool calls
CallingMessages ==
    { history[i] : i \in { j \in 1..Len(history) :
                               /\ history[j].role = "assistant"
                               /\ "tool_calls" \in DOMAIN history[j] } }

\* the tool calls the model has listed so far
ListedCalls ==
    UNION { { m.tool_calls[i] : i \in 1..Len(m.tool_calls) } : m \in CallingMessages }

CallOf(id) == CHOOSE c \in ListedCalls : c.id = id

\* whether the call is the last one its assistant message lists
LastOfItsMessage(id) ==
    \E m \in CallingMessages : m.tool_calls[Len(m.tool_calls)].id = id

HasResult(id) == \E m \in ToolMessages : m.tool_call_id = id

\* the envelope in the tool message of the call, parsed back from its content
EnvelopeOf(id) ==
    json_loads((CHOOSE m \in ToolMessages : m.tool_call_id = id).content)

\* the envelope holds this error message and this exit code
IsErrorEnvelope(env, msg, code) ==
    /\ env.t = "dict"
    /\ HasKey(env, "error") /\ Get(env, "error") = JStr(msg)
    /\ HasKey(env, "exit_code") /\ Get(env, "exit_code") = JInt(code)

\* the events of the trace that are about tool calls
CallEvents == { k \in 1..Len(trace) : trace[k].id # 0 }

\* events in which executor_func(**parsed_args) was evaluated
ExecutorEvents == {"invoke", "invoke_raise", "bind_error"}

\* events in which that evaluation raised
RaiseEvents == {"invoke_raise", "bind_error"}

\* events of ask_for_approval
ApprovalEvents == {"ask", "approve", "deny"}

Line(text) == [kind |-> "line", text |-> text]

\* the inputs that answer yes, no, and neither, listed by hand
YesInputs == { Line(<<"y">>), Line(<<"Y">>), Line(<<" ", "Y", " ">>) }

NoInputs ==
    { Line(<<"n">>), Line(<<"N", " ">>), Line(<<>>), Line(<<" ">>),
      [kind |-> "EOFError"], [kind |-> "KeyboardInterrupt"] }

OtherInputs == { Line(<<"y", "e", "s">>), Line(<<"y", " ", "y">>), Line(<<"m">>) }

(***************************************************************************)
(* Properties.                                                             *)
(***************************************************************************)

\* C1: in both agents, the executor of a tool in DANGEROUS_TOOLS is called
\* only after ask_for_approval was called for that same call in the same
\* dispatch and returned True.
C1_DangerousExecutorNeedsApproval ==
    \A k \in CallEvents :
        (trace[k].ev \in ExecutorEvents /\ trace[k].name \in DANGEROUS_TOOLS(agent))
            => /\ k >= 3
               /\ trace[k - 2] = [trace[k] EXCEPT !.ev = "ask"]
               /\ trace[k - 1] = [trace[k] EXCEPT !.ev = "approve"]

\* a dangerous executor has run, after approval
C1_Witness ==
    \E k \in CallEvents :
        /\ trace[k].ev = "invoke"
        /\ trace[k].name \in {"write_file", "copy_file", "execute_python_code"}

\* C2: when ask_for_approval returns False for a dangerous call, its executor
\* is never called and its tool message holds the error 'Action denied by
\* user.' with exit_code -4.
C2_DenialEnvelope ==
    \A k \in CallEvents :
        trace[k].ev = "deny"
            => /\ \A j \in CallEvents :
                     trace[j].id = trace[k].id => trace[j].ev \notin ExecutorEvents
               /\ HasResult(trace[k].id)
               /\ IsErrorEnvelope(EnvelopeOf(trace[k].id),
                                  "Action denied by user.", -4)

\* a dangerous call with parseable arguments was denied
C2_Witness ==
    \E k \in CallEvents :
        /\ trace[k].ev = "deny"
        /\ trace[k].name = "write_file"
        /\ json_loads(CallOf(trace[k].id).arguments).t = "dict"

\* C3: ask_for_approval returns True only on a line that is 'y' once
\* lower-cased and stripped; an empty line, 'n', end-of-input and an interrupt
\* each make it return False; inputs without such a line never approve.
C3_OnlyYesApproves ==
    /\ cur.answer = "True" => (lines # <<>> /\ lines[Len(lines)] \in YesInputs)
    /\ \A i \in 1..Len(lines) :
          lines[i] \in NoInputs => (i = Len(lines) /\ cur.answer = "False")
    /\ (\A i \in 1..Len(lines) : lines[i] \notin YesInputs)
          => /\ cur.answer # "True"
             /\ \A k \in CallEvents :
                   trace[k].id = cur.id => trace[k].ev \notin {"approve", "invoke"}

\* the prompt was answered with text that is neither, then with ' Y '
C3_Witness ==
    /\ cur.answer = "True"
    /\ Len(lines) = 2
    /\ lines[1] = Line(<<"y", "e", "s">>)
    /\ lines[2] = Line(<<" ", "Y", " ">>)

NonDangerousNames ==
    {"read_file", "list_directory", "ask_user", "no_such_tool"}
        \cup (IF agent = "pycodex" THEN {"execute_python_code"} ELSE {})

\* C5: for a tool call whose name is not in DANGEROUS_TOOLS, ask_for_approval
\* is never called, whatever the arguments.
C5_NoPromptForSafeTools ==
    /\ \A k \in CallEvents :
          trace[k].name \in NonDangerousNames => trace[k].ev \notin ApprovalEvents
    /\ cur.name \in NonDangerousNames
          => (~cur.asked /\ cur.answer = "none" /\ lines = <<>> /\ pc # "approval")

\* read_file has run
C5_Witness ==
    \E k \in CallEvents : trace[k].ev = "invoke" /\ trace[k].name = "read_file"

\* C6: a call with JSON object arguments whose name is no key of
\* TOOL_EXECUTORS gets a tool message with the error 'Unsupported function:
\* <name>' and exit_code -6, and neither an executor nor a prompt.
C6_UnsupportedFunction ==
    \A k \in CallEvents :
        (/\ trace[k].name \notin TOOL_EXECUTORS(agent)
         /\ json_loads(CallOf(trace[k].id).arguments).t = "dict")
            => /\ trace[k].ev = "short_circuit"
               /\ HasResult(trace[k].id)
               /\ IsErrorEnvelope(EnvelopeOf(trace[k].id),
                                  "Unsupported function: " \o trace[k].name, -6)

\* an unregistered name was called with object arguments
C6_Witness ==
    \E k \in CallEvents :
        /\ trace[k].name = "no_such_tool"
        /\ json_loads(CallOf(trace[k].id).arguments).t = "dict"
        /\ HasResult(trace[k].id)

\* C7: a call of a registered tool whose arguments do not parse as JSON gets a
\* tool message with exit_code -5, and neither an executor nor a prompt, even
\* when the tool is dangerous.
C7_InvalidArguments ==
    \A k \in CallEvents :
        (/\ trace[k].name \in TOOL_EXECUTORS(agent)
         /\ IsError(json_loads(CallOf(trace[k].id).arguments)))
            => /\ trace[k].ev = "short_circuit"
               /\ HasResult(trace[k].id)
               /\ EnvelopeOf(trace[k].id).t = "dict"
               /\ HasKey(EnvelopeOf(trace[k].id), "exit_code")
               /\ Get(EnvelopeOf(trace[k].id), "exit_code") = JInt(-5)

\* a dangerous tool was called with arguments that do not parse
C7_Witness ==
    \E k \in CallEvents :
        /\ trace[k].name = "write_file"
        /\ CallOf(trace[k].id).arguments = <<"{", "oops">>
        /\ HasResult(trace[k].id)

\* the calls of an unregistered name whose arguments do not parse
UnparseableUnregistered ==
    { k \in CallEvents :
          /\ trace[k].name \notin TOOL_EXECUTORS(agent)
          /\ IsError(json_loads(CallOf(trace[k].id).arguments)) }

\* C8, as claimed: parsing is decided before the lookup, so a call whose
\* arguments do not parse and whose name is unregistered gets exit_code -5.
C8_Original ==
    \A k \in UnparseableUnregistered :
        HasResult(trace[k].id)
            => IsErrorEnvelope(EnvelopeOf(trace[k].id),
                               "Invalid arguments provided to tool.", -5)

\* C8, amended: the lookup is decided before the parse failure, so a call
\* whose arguments do not parse and whose name is unregistered gets the
\* unsupported-function envelope, exit_code -6.
C8_LookupDecidedFirst ==
    \A k \in UnparseableUnregistered :
        /\ trace[k].ev = "short_circuit"
        /\ HasResult(trace[k].id)
        /\ IsErrorEnvelope(EnvelopeOf(trace[k].id),
                           "Unsupported function: " \o trace[k].name, -6)

\* an unregistered name was called with arguments that do not parse
C8_Witness ==
    \E k \in UnparseableUnregistered :
        trace[k].name = "no_such_tool" /\ HasResult(trace[k].id)

\* C9, as claimed: a call of a registered tool whose arguments are valid JSON
\* but no object gets the invalid-arguments envelope, exit_code -5, no
\* executor, and no exception escapes process_api_response.
C9_NonObjectArguments ==
    \A k \in CallEvents :
        (/\ trace[k].name \in TOOL_EXECUTORS(agent)
         /\ json_loads(CallOf(trace[k].id).arguments).t
                \in {"list", "str", "int", "bool", "null"})
            => /\ trace[k].ev = "short_circuit"
               /\ HasResult(trace[k].id)
               /\ IsErrorEnvelope(EnvelopeOf(trace[k].id),
                                  "Invalid arguments provided to tool.", -5)

\* C10: when the executor call raises an Exception, the tool message of the
\* call holds 'Tool execution failed: <message>' with exit_code -7, the next
\* call of the message is dispatched, and after the last one
\* process_api_response returns True.
C10_ExecutorRaiseIsCaught ==
    \A k \in CallEvents :
        trace[k].ev \in RaiseEvents
            => /\ HasResult(trace[k].id)
               /\ \E exc \in {"TypeError", "AttributeError"} :
                     IsErrorEnvelope(EnvelopeOf(trace[k].id),
                                     "Tool execution failed: " \o exc, -7)
               /\ (k < Len(trace) /\ ~LastOfItsMessage(trace[k].id))
                     => trace[k + 1].id = trace[k].id + 1
               /\ k = Len(trace)
                     => IF LastOfItsMessage(trace[k].id)
                        THEN /\ pc = "run_loop"
                             /\ history[Len(history)].role = "tool"
                             /\ history[Len(history)].tool_call_id = trace[k].id
                        ELSE /\ pc \in {"dispatch", "execute"}
                             /\ tool_calls[idx].id = trace[k].id + 1

\* fetch_web_page raised, and the next call of the message ran its executor
C10_Witness ==
    \E k \in CallEvents :
        /\ trace[k].ev = "invoke_raise"
        /\ k < Len(trace)
        /\ trace[k + 1] = [ev |-> "invoke", id |-> trace[k].id + 1,
                           name |-> "read_file"]

\* the payload is a JSON object or does not parse
ObjectOrUnparseable(raw) == IsError(json_loads(raw)) \/ json_loads(raw).t = "dict"

\* process_api_response is still at work on the last message of the history
InProcess == pc \in {"dispatch", "approval", "execute"}

\* C11, as claimed: for an assistant message listing k >= 1 tool calls with
\* object or unparseable payloads, process_api_response appends the assistant
\* message followed by exactly k tool messages, the i-th with the id and name
\* of the i-th listed call.
C11_OneToolMessagePerCall ==
    \A i \in 1..Len(history) :
        (/\ history[i].role = "assistant"
         /\ "tool_calls" \in DOMAIN history[i]
         /\ \A c \in 1..Len(history[i].tool_calls) :
               ObjectOrUnparseable(history[i].tool_calls[c].arguments)
         /\ ~(i = Len(history) /\ InProcess))
            => LET calls == history[i].tool_calls
                   k == Len(calls)
               IN  /\ Len(history) >= i + k
                   /\ \A c \in 1..k :
                         /\ history[i + c].role = "tool"
                         /\ history[i + c].tool_call_id = calls[c].id
                         /\ history[i + c].name = calls[c].name
                   /\ Len(history) > i + k => history[i + k + 1].role # "tool"

\* C12: in every reachable history, each tool message has the id of one of
\* the tool calls of the nearest preceding assistant message, and only tool
\* messages lie between the two.
C12_ToolMessageAnswersNearestAssistant ==
    \A i \in 1..Len(history) :
        history[i].role = "tool"
            => \E a \in 1..(i - 1) :
                  /\ history[a].role = "assistant"
                  /\ "tool_calls" \in DOMAIN history[a]
                  /\ \A j \in (a + 1)..(i - 1) : history[j].role = "tool"
                  /\ \E c \in 1..Len(history[a].tool_calls) :
                        history[a].tool_calls[c].id = history[i].tool_call_id

\* the second tool message of a turn is in the history, and the next
\* assistant message after it
C12_Witness ==
    \E i \in 3..Len(history) :
        /\ history[i - 2].role = "tool"
        /\ history[i - 1].role = "tool"
        /\ history[i].role = "assistant"

IsPrefix(s, t) == Len(s) <= Len(t) /\ SubSeq(t, 1, Len(s)) = s

\* C13: history is append-only: over every step the history before is a
\* prefix of the history after.
C13_HistoryAppendOnly == [][IsPrefix(history, history')]_vars

\* a user message, an assistant message and its tool message were appended
C13_Witness ==
    /\ Len(history) >= 4
    /\ history[Len(history)].role = "tool"
    /\ history[Len(history) - 1].role = "assistant"
    /\ history[Len(history) - 2].role = "user"

\* the model call did not give a usable message: call_api failed, or the
\* response has no choice
FailedResponses == {"error", "no_choices"}

\* the messages appended since the request was sent
AppendedSince(request) ==
    SubSeq(history, Len(request.messages) + 1, Len(history))

\* C14, as claimed: when the model call fails, also with a response that
\* carries no usable message, the loop ends with 'done', no assistant and no
\* tool message is appended, and no exception escapes the driver.
C14_FailedCallLeavesHistory ==
    (sent # <<>> /\ sent[Len(sent)].response.kind \in FailedResponses)
        => LET request == sent[Len(sent)].request
           IN  /\ pc \in {"input", "exited", "run_loop"}
               /\ trace[Len(trace)].ev = "api_error"
               /\ IsPrefix(request.messages, history)
               /\ IF pc = "run_loop"
                  THEN /\ Len(AppendedSince(request)) = 1
                       /\ history[Len(history)].role = "user"
                  ELSE history = request.messages

\* the event of the trace that the i-th request led to
NoteOf(i) ==
    CHOOSE k \in 1..Len(trace) :
        /\ trace[k].id = 0
        /\ Cardinality({ j \in 1..k : trace[j].id = 0 }) = i

\* the responses that carry text and no tool call
TextResponses ==
    { i \in 1..Len(sent) :
          /\ sent[i].response.kind = "message"
          /\ sent[i].response.tool_calls = <<>>
          /\ sent[i].response.content \in {"answer", "hello"} }

\* C15: for a response with no tool calls and non-empty text,
\* process_api_response appends the assistant message, shows exactly that
\* text, returns False, and calls no executor and no approval prompt.
C15_TextAnswerEndsTurn ==
    \A i \in TextResponses :
        LET n == Len(sent[i].request.messages)
            text == sent[i].response.content
        IN  /\ Len(history) > n
            /\ history[n + 1] = [role |-> "assistant", content |-> text]
            /\ Len(history) > n + 1 => history[n + 2].role = "user"
            /\ trace[NoteOf(i)] = [ev |-> "print", id |-> 0, name |-> text]
            /\ IF i = Len(sent)
               THEN /\ NoteOf(i) = Len(trace)
                    /\ \/ pc = "exited" /\ Len(history) = n + 1
                       \/ mode = "interactive" /\ pc = "input" /\ Len(history) = n + 1
                       \/ mode = "interactive" /\ pc = "run_loop" /\ Len(history) = n + 2
                    /\ cur = NoCall /\ tool_results = <<>>
               ELSE NoteOf(i + 1) = NoteOf(i) + 1

\* the text 'hello' was answered to the second request of a session
C15_Witness ==
    /\ Len(sent) = 2
    /\ 2 \in TextResponses
    /\ sent[2].response.content = "hello"
    /\ pc = "input"

\* the prompt or the executor of a call is at work
Busy == pc \in {"approval", "execute"}

\* C16: the tool calls of one assistant message are processed one after
\* another in listed order: the prompt and the executor run of a call are over
\* before those of a later call start, and they never interleave.
C16_CallsInListedOrder ==
    /\ \A k, l \in CallEvents : k < l => trace[k].id <= trace[l].id
    /\ Busy => /\ idx \in 1..Len(tool_calls)
               /\ cur.id = tool_calls[idx].id
               /\ Len(tool_results) = idx - 1
               /\ \A k \in CallEvents : trace[k].id <= cur.id
    /\ \A i \in 1..Len(tool_results) : tool_results[i].tool_call_id = tool_calls[i].id

\* the second call of a message is at its prompt after the first one was
\* approved and run
C16_Witness ==
    /\ pc = "approval"
    /\ idx = 2
    /\ \E k \in CallEvents :
          /\ k + 3 = Len(trace)
          /\ trace[k].ev = "ask"
          /\ trace[k + 1].ev = "approve"
          /\ trace[k + 2].ev \in ExecutorEvents
          /\ trace[k + 3].ev = "ask"
          /\ trace[k + 3].id = trace[k].id + 1

\* the request that a history determines, written out for each agent
RequestFor(messages) ==
    IF agent = "toyagent"
    THEN [model |-> "gpt-4o-mini", messages |-> messages,
          tools |-> << "execute_python_code", "execute_shell_command",
                       "read_file", "write_file", "copy_file", "list_directory",
                       "create_directory", "fetch_web_page", "ask_user" >>,
          tool_choice |-> "auto", temperature |-> "0.6", top_p |-> "0.9"]
    ELSE [model |-> "gpt-4o-mini", messages |-> messages,
          tools |-> << "shell_exec", "read_file", "write_file", "copy_file",
                       "list_directory", "create_directory", "fetch_web_page",
                       "ask_user" >>,
          tool_choice |-> "auto"]

\* the message that a response with a message determines
MessageFor(response) ==
    IF response.tool_calls = <<>>
    THEN [role |-> "assistant", content |-> response.content]
    ELSE [role |-> "assistant", content |-> response.content,
          tool_calls |-> response.tool_calls]

\* C17: the request the driver sends is a function of the history alone: it
\* carries the whole history as its messages, the tool schema list,
\* tool_choice 'auto' and the sampling parameters of the session, and nothing
\* that depends on what was sent before; the step then appends what the
\* response holds, and two requests with equal messages are equal.
C17_RequestDeterminedByHistory ==
    /\ \A i \in 1..Len(sent) :
          LET messages == sent[i].request.messages
          IN  /\ sent[i].request = RequestFor(messages)
              /\ IsPrefix(messages, history)
              /\ messages[Len(messages)].role \in {"user", "tool"}
              /\ sent[i].response.kind = "message"
                    => /\ Len(history) > Len(messages)
                       /\ history[Len(messages) + 1] = MessageFor(sent[i].response)
    /\ \A i, j \in 1..Len(sent) :
          sent[i].request.messages = sent[j].request.messages
              => sent[i].request = sent[j].request
    /\ (pc = "run_loop" /\ sent # <<>> /\ history[Len(history)].role = "tool")
          => Request(agent, history) = RequestFor(history)

\* a request was sent for a history that ends in a tool message
C17_Witness ==
    /\ Len(sent) = 2
    /\ sent[2].request.messages[Len(sent[2].request.messages)].role = "tool"
    /\ sent[2].response.kind = "message"

\* C18: every envelope the dispatcher appends is the content of its tool
\* message as json.dumps writes it, and parsing that content back gives a
\* value identical to the envelope: same keys, same values.
C18_EnvelopeRoundTrip ==
    (cur.id # 0 /\ HasResult(cur.id))
        => /\ cur.env.t = "dict"
           /\ \E m \in ToolMessages :
                 /\ m.tool_call_id = cur.id
                 /\ m.content = json_dumps(cur.env)
                 /\ json_loads(m.content) = cur.env
                 /\ Keys(json_loads(m.content)) = Keys(cur.env)

\* the result of list_directory, with a list and a null, was appended
C18_Witness ==
    /\ cur.name = "list_directory"
    /\ cur.invoked
    /\ HasResult(cur.id)
    /\ cur.env.t = "dict"
    /\ HasKey(cur.env, "entries") /\ Get(cur.env, "entries").t = "list"
    /\ HasKey(cur.env, "error") /\ Get(cur.env, "error") = JNull

\* the lines typed at the session prompt, by what they are, listed by hand
TaskLines == { Line(<<"t">>), Line(<<" ", "t", " ">>) }

BlankLines == { Line(<<>>), Line(<<" ">>) }

QuitLines == { Line(<<"q", "u", "i", "t">>), Line(<<" ", "E", "x", "i", "t">>) }

\* C19: in interactive mode a user message is appended and the model called
\* only for a non-empty line that is not 'quit' or 'exit' after stripping,
\* whatever its case: a blank line leaves the history unchanged and prompts
\* again, a quit command ends the session with the history unchanged and no
\* model call.
C19_OnlyTaskLinesReachModel ==
    [][ /\ pc = "input"
           => /\ user_input' \in TaskLines
                    => /\ history' = Append(history, [role |-> "user",
                                                      content |-> <<"t">>])
                       /\ pc' = "run_loop"
              /\ user_input' \in BlankLines
                    => /\ history' = history
                       /\ pc' = "input"
              /\ user_input' \in QuitLines
                    => /\ history' = history
                       /\ pc' = "exited"
              /\ sent' = sent /\ trace' = trace
        /\ (mode = "interactive" /\ sent' # sent)
              => /\ pc = "run_loop"
                 /\ history[Len(history)].role = "user"
                       => (user_input \in TaskLines
                             /\ history[Len(history)].content = <<"t">>)
        /\ pc # "exited"
      ]_vars

\* after one answered task, ' Exit' ended the session
C19_Witness ==
    /\ pc = "exited"
    /\ user_input = Line(<<" ", "E", "x", "i", "t">>)
    /\ Len(sent) = 1
    /\ Len(history) = 3

\* C20: in interactive mode, end-of-input or an interrupt at the session
\* prompt ends the loop normally: no exception, no message appended, no model
\* call.
C20_EndOfInputEndsSession ==
    [][ (pc = "input" /\ user_input'.kind \in {"EOFError", "KeyboardInterrupt"})
            => /\ mode = "interactive"
               /\ pc' = "exited"
               /\ history' = history
               /\ sent' = sent
               /\ trace' = trace
               /\ counters'.requests = counters.requests
      ]_vars

\* after one answered task, the input was closed
C20_Witness ==
    /\ pc = "exited"
    /\ user_input = [kind |-> "EOFError"]
    /\ Len(sent) = 1
    /\ Len(history) = 3

\* the tool message the present call has just been given, after a step of
\* Execute
NewToolMessage ==
    IF pc' = "run_loop" THEN history'[Len(history')]
    ELSE tool_results'[Len(tool_results')]

\* after a step of Execute the for loop goes on: to the next call listed, or,
\* after the last, to the next model call
LoopGoesOn ==
    IF idx < Len(tool_calls)
    THEN pc' = "dispatch" /\ idx' = idx + 1 /\ history' = history
    ELSE pc' = "run_loop" /\ Len(history') = Len(history) + Len(tool_calls)

\* C21: when the operator interrupts or closes the input at ask_user's
\* prompt, only the question is abandoned: the executor returns an envelope
\* with response null and an error, that envelope is the call's tool message,
\* the remaining calls of the message are dispatched and the session goes on.
C21_InterruptedQuestionIsAnswered ==
    [][ (pc = "execute" /\ cur.name = "ask_user" /\ cur'.invoked
            /\ cur'.how \in {"interrupt", "eof"})
        => /\ trace'[Len(trace')] = [ev |-> "invoke", id |-> cur.id, name |-> "ask_user"]
           /\ HasKey(cur'.env, "response") /\ Get(cur'.env, "response") = JNull
           /\ HasKey(cur'.env, "error") /\ Get(cur'.env, "error").t = "str"
           /\ NewToolMessage.tool_call_id = cur.id
           /\ json_loads(NewToolMessage.content) = cur'.env
           /\ LoopGoesOn ]_vars

\* an interrupted question of pycodex, first of two calls, and the second
\* call's tool message after it in the history
C21_Witness ==
    /\ agent = "pycodex"
    /\ \E i \in 1..(Len(history) - 1) :
          /\ history[i].role = "tool" /\ history[i].name = "ask_user"
          /\ Get(json_loads(history[i].content), "error")
                = JStr("Input stream closed while asking question.")
          /\ history[i + 1].role = "tool"
          /\ history[i + 1].tool_call_id = history[i].tool_call_id + 1

\* the last model call failed: call_api returned None
LastCallFailed == sent # <<>> /\ sent[Len(sent)].response.kind = "error"

\* C22: in interactive mode a turn ended by a failed model call leaves the
\* session loop running: the failure returns control to the session prompt
\* with the history as it was, the next task line is appended as a user
\* message, and the step after it is a new model call with that history.
C22_FailedTurnLeavesSessionRunning ==
    [][ /\ (mode = "interactive" /\ Len(sent') = Len(sent) + 1
               /\ sent'[Len(sent')].response.kind = "error")
           => (pc' = "input" /\ history' = history)
        /\ (pc = "input" /\ LastCallFailed /\ user_input' \in TaskLines)
           => /\ history' = Append(history, UserMessage(<<"t">>))
              /\ pc' = "run_loop"
        /\ (pc = "run_loop" /\ mode = "interactive" /\ LastCallFailed)
           => /\ Len(sent') = Len(sent) + 1
              /\ sent'[Len(sent')].request = Request(agent, history)
              /\ history[Len(history)] = UserMessage(<<"t">>)
      ]_vars

\* a failed model call, then a task line, then a second model call that the
\* model answered
C22_Witness ==
    /\ mode = "interactive"
    /\ Len(sent) = 2
    /\ sent[1].response.kind = "error"
    /\ sent[2].response.kind = "message"
    /\ Len(sent[2].request.messages) = Len(sent[1].request.messages) + 1
    /\ user_input \in TaskLines

\* the model call of this step ends the loop: call_api failed, or the
\* response lists no tool call
EndsLoop(response) ==
    \/ response.kind = "error"
    \/ response.kind = "message" /\ response.tool_calls = <<>>

\* C23: single-shot mode starts from the history [system, user(task)], sends
\* one request per iteration of the loop, each with the history of that
\* moment, never prompts for a task, and ends with the first model call that
\* fails or whose response lists no tool call; when the model answers and
\* every approval prompt and executor returns, run_single_pass is eventually
\* left.
C23_SingleShotTerminates ==
    /\ [](mode = "single"
            => /\ pc # "input"
               /\ sent # <<>> => sent[1].request.messages
                                    = << SystemMessage, UserMessage(InitialPrompt) >>)
    /\ [][ mode = "single"
            => /\ pc = "run_loop"
                  => /\ Len(sent') = Len(sent) + 1
                     /\ sent'[Len(sent')].request = Request(agent, history)
                     /\ EndsLoop(sent'[Len(sent')].response) => pc' = "exited"
                     /\ pc' = "exited" => EndsLoop(sent'[Len(sent')].response)
               /\ pc # "run_loop" => (sent' = sent /\ pc' # "exited") ]_vars
    /\ (mode = "single") ~> (pc \in {"exited", "crashed"})

\* a single-shot run of two model calls, the first answered with a tool call
\* and the second with text, has ended
C23_Witness ==
    /\ mode = "single"
    /\ pc = "exited"
    /\ Len(sent) = 2
    /\ sent[1].response.tool_calls # <<>>
    /\ sent[2].response.kind = "message"
    /\ sent[2].response.tool_calls = <<>>

\* the executor of the present call was called and its operation timed out
TimedOut == cur.invoked /\ cur.how = "timeout"

\* the error texts the executors give for a timeout, with the default
\* timeout_seconds
TimeoutErrors ==
    { "Timeout (60s)", "Command timed out after 60 seconds.",
      "Python code execution timed out after 30 seconds.",
      "Timeout (10s)", "Request timed out after 10 seconds." }

\* C24 as stated: every executor that takes a timeout returns, when the
\* operation times out, a normal envelope with a timeout-specific error and
\* exit_code -1.
C24_Original ==
    TimedOut
        => /\ cur.returned # None /\ cur.env = cur.returned
           /\ HasKey(cur.returned, "error")
           /\ Get(cur.returned, "error").t = "str"
           /\ Get(cur.returned, "error").v \in TimeoutErrors
           /\ HasKey(cur.returned, "exit_code")
           /\ Get(cur.returned, "exit_code") = JInt(-1)

\* C24: every executor that takes a timeout returns, when the operation
\* times out, a normal envelope with a timeout-specific error and does not
\* raise; the envelope of shell execution has exit_code -1, the envelopes of
\* Python code execution and web page fetch have no exit_code key.
C24_TimeoutEnvelope ==
    TimedOut
        => /\ cur.returned # None /\ cur.env = cur.returned
           /\ HasKey(cur.returned, "error")
           /\ Get(cur.returned, "error").t = "str"
           /\ Get(cur.returned, "error").v \in TimeoutErrors
           /\ ExecutorFunc(agent, cur.name) \in
                 {"execute_shell_command", "execute_python_code", "fetch_web_page"}
           /\ IF ExecutorFunc(agent, cur.name) = "execute_shell_command"
              THEN /\ HasKey(cur.returned, "exit_code")
                   /\ Get(cur.returned, "exit_code") = JInt(-1)
              ELSE ~HasKey(cur.returned, "exit_code")

\* a page fetch that timed out: its tool message has an error and no
\* exit_code
C24_Witness ==
    /\ TimedOut
    /\ cur.name = "fetch_web_page"
    /\ HasResult(cur.id)
    /\ Get(EnvelopeOf(cur.id), "error").t = "str"
    /\ ~HasKey(EnvelopeOf(cur.id), "exit_code")

\* C25: when an approved shell command runs past its timeout, the executor
\* returns an envelope with exit_code -1 and an error and does not raise, the
\* tool message of the call holds that envelope unchanged, and the loop goes
\* on to the next call or the next model call.
C25_ShellTimeoutIsAnswered ==
    [][ (pc = "execute" /\ cur'.invoked /\ cur'.how = "timeout"
            /\ ExecutorFunc(agent, cur.name) = "execute_shell_command")
        => /\ cur.asked /\ cur.answer = "True"
           /\ trace'[Len(trace')] = [ev |-> "invoke", id |-> cur.id, name |-> cur.name]
           /\ HasKey(cur'.returned, "exit_code")
           /\ Get(cur'.returned, "exit_code") = JInt(-1)
           /\ HasKey(cur'.returned, "error")
           /\ Get(cur'.returned, "error").t = "str"
           /\ NewToolMessage.tool_call_id = cur.id
           /\ NewToolMessage.content = json_dumps(cur'.returned)
           /\ json_loads(NewToolMessage.content) = cur'.returned
           /\ LoopGoesOn ]_vars

\* pycodex's shell_exec timed out and the next request holds its envelope
C25_Witness ==
    /\ agent = "pycodex"
    /\ Len(sent) = 2
    /\ LET messages == sent[2].request.messages
       IN  /\ messages[Len(messages)].role = "tool"
           /\ messages[Len(messages)].name = "shell_exec"
           /\ json_loads(messages[Len(messages)].content)
                = JDict(<< <<"stdout", JStr("")>>, <<"stderr", JStr("")>>,
                           <<"exit_code", JInt(-1)>>,
                           <<"error", JStr("Command timed out after 60 seconds.")>> >>)

\* the present call is write_file, with strings for path and content, on a
\* path that is a file, and its executor is called in this step
WritesExistingFile ==
    /\ pc = "execute" /\ cur.name = "write_file" /\ cur'.invoked
    /\ Get(cur.parsed, "path").t = "str" /\ Get(cur.parsed, "content").t = "str"
    /\ IsFile(files, Get(cur.parsed, "path").v)

C27_MissingFileIsAnswered ==
    [][ (pc = "execute" /\ cur.name = "read_file" /\ cur'.invoked
            /\ Get(cur.parsed, "path").t = "str"
            /\ ~Exists(files, Get(cur.parsed, "path").v))
        => /\ ~cur.asked
           /\ \A k \in 1..Len(trace) :
                 trace[k].id = cur.id => trace[k].ev \notin ApprovalEvents
           /\ trace'[Len(trace')] = [ev |-> "invoke", id |-> cur.id, name |-> "read_file"]
           /\ Keys(cur'.returned) = {"content", "error"}
           /\ Get(cur'.returned, "content") = JNull
           /\ Get(cur'.returned, "error").t = "str"
           /\ NewToolMessage.tool_call_id = cur.id
           /\ NewToolMessage.content = json_dumps(cur'.returned)
           /\ json_loads(NewToolMessage.content) = cur'.returned
           /\ files' = files ]_vars

\* pycodex read a path that is not there: the tool message says so
C27_Witness ==
    /\ agent = "pycodex"
    /\ files["f"] = Absent
    /\ \E i \in 1..Len(history) :
          /\ history[i].role = "tool" /\ history[i].name = "read_file"
          /\ json_loads(history[i].content)
                = JDict(<< <<"content", JNull>>,
                           <<"error", JStr("File not found: f")>> >>)

\* the argument key whose value the approval prompt shows for a dangerous
\* tool, "" when the tool has none
DetailArg(a, name) ==
    IF a = "toyagent"
    THEN IF name \in DOMAIN DANGEROUS_TOOL_INFO
         THEN DANGEROUS_TOOL_INFO[name].detail_arg ELSE ""
    ELSE CASE name = "shell_exec" -> "command"
           [] name \in {"write_file", "create_directory"} -> "path"
           [] name = "fetch_web_page" -> "url"
           [] OTHER -> ""

\* ask_for_approval was called for the present call, whose arguments are an
\* object without the tool's detail key
AskedWithoutDetail ==
    /\ cur.asked /\ cur.parsed.t = "dict"
    /\ DetailArg(agent, cur.name) # ""
    /\ ~HasKey(cur.parsed, DetailArg(agent, cur.name))

\* C28 as stated: when the detail key of a dangerous tool is absent from the
\* parsed arguments, the approval prompt shows the serialized parsed
\* arguments, not a placeholder.
C28_Original == AskedWithoutDetail => cur.details = json_dumps(cur.parsed)

\* C28: when the detail key of a dangerous tool is absent from the parsed
\* arguments, the approval prompt shows a placeholder: '<missing detail>' in
\* toyagent, '<missing command>', '<missing path>' or '<missing url>' in
\* pycodex; it shows the serialized parsed arguments when the tool has no
\* detail key.
C28_MissingDetailShowsPlaceholder ==
    /\ AskedWithoutDetail
          => /\ cur.details = << IF agent = "toyagent" THEN "<missing detail>"
                                 ELSE "<missing " \o DetailArg(agent, cur.name) \o ">" >>
             /\ cur.details # json_dumps(cur.parsed)
    /\ (cur.asked /\ cur.parsed.t = "dict" /\ DetailArg(agent, cur.name) = "")
          => cur.details = json_dumps(cur.parsed)

\* toyagent asks about a write_file call with the arguments {} and shows the
\* placeholder
C28_Witness ==
    /\ agent = "toyagent"
    /\ AskedWithoutDetail
    /\ cur.name = "write_file"
    /\ cur.parsed = JDict(<<>>)
    /\ cur.details = << "<missing detail>" >>
    /\ trace[Len(trace)].ev \in ApprovalEvents

C30_ReturnedEnvelopeUnchanged ==
    [][ (pc = "execute" /\ cur'.invoked
            /\ trace'[Len(trace')] = [ev |-> "invoke", id |-> cur.id, name |-> cur.name])
        => /\ cur'.returned.t = "dict"
           /\ NewToolMessage.tool_call_id = cur.id
           /\ NewToolMessage.content = json_dumps(cur'.returned)
           /\ json_loads(NewToolMessage.content) = cur'.returned
           /\ Keys(json_loads(NewToolMessage.content)) = Keys(cur'.returned)
           /\ cur'.env = cur'.returned ]_vars

\* toyagent's execute_python_code timed out: the tool message holds the
\* executor's three keys, an error among them, and no exit_code
C30_Witness ==
    /\ agent = "toyagent"
    /\ \E i \in 1..Len(history) :
          /\ history[i].role = "tool" /\ history[i].name = "execute_python_code"
          /\ json_loads(history[i].content)
                = JDict(<< <<"stdout", JNull>>, <<"stderr", JNull>>,
                           <<"error",
                             JStr("Python code execution timed out after 30 seconds.")>> >>)

\* C31, as claimed: every tool call an assistant message lists is consumed
\* exactly once: its executor is evaluated at most once, no step of its
\* dispatch happens twice, and once process_api_response is no longer at work
\* on its message the history holds exactly one tool message with its id.
C31_ConsumedExactlyOnce ==
    \A c \in ListedCalls :
        LET about(evs) == { k \in CallEvents : trace[k].id = c.id /\ trace[k].ev \in evs }
            collected == { j \in 1..Len(tool_results) : tool_results[j].tool_call_id = c.id }
            appended == { j \in 1..Len(history) :
                             /\ history[j].role = "tool"
                             /\ history[j].tool_call_id = c.id }
            current == /\ InProcess
                       /\ \E j \in 1..Len(tool_calls) : tool_calls[j].id = c.id
        IN  /\ Cardinality(about(ExecutorEvents)) <= 1
            /\ \A ev \in {"crash", "short_circuit", "ask", "approve", "deny"} :
                  Cardinality(about({ev})) <= 1
            /\ Cardinality(collected) + Cardinality(appended) <= 1
            /\ ~current => Cardinality(appended) = 1

\* C32, as claimed: whenever the envelope of a new tool message holds an
\* exit_code from -1 to -7, the event the taxonomy gives that code happened in
\* the dispatch of that call: -1 a timeout, -2 a missing target, -3 an
\* unexpected failure inside the executor, -4 a denial by the operator, -5 a
\* payload that did not parse to arguments, -6 a name that is not registered,
\* -7 an exception out of the executor call. Shell envelopes are included.
C32_ExitCodeTaxonomy ==
    [][ (InProcess /\ pc' \in {"dispatch", "run_loop"})
        => LET env == json_loads(NewToolMessage.content)
               call == CallAt(tool_calls, idx)
               last == trace'[Len(trace')]
               code(c) == HasKey(env, "exit_code") /\ Get(env, "exit_code") = JInt(c)
           IN  /\ NewToolMessage.tool_call_id = call.id
               /\ last.id = call.id
               /\ code(-1) => (last.ev = "invoke" /\ cur'.how = "timeout")
               /\ code(-2) => (last.ev = "invoke" /\ cur'.how = "missing")
               /\ code(-3) => (last.ev = "invoke" /\ cur'.how = "type")
               /\ code(EXIT_DENIED) => (pc = "approval" /\ last.ev = "deny")
               /\ code(EXIT_INVALID_ARGUMENTS)
                     => /\ pc = "dispatch" /\ last.ev = "short_circuit"
                        /\ \/ IsError(json_loads(call.arguments))
                           \/ json_loads(call.arguments) = JNull
               /\ code(EXIT_UNSUPPORTED)
                     => /\ pc = "dispatch" /\ last.ev = "short_circuit"
                        /\ call.name \notin TOOL_EXECUTORS(agent)
               /\ code(EXIT_EXECUTION_FAILED) => last.ev \in RaiseEvents ]_vars

\* the executor called in this step met a failure it expects: a missing file
\* or directory, a URL it does not take or could not fetch, a child process
\* that exited with a status other than 0
ExpectedFailure ==
    /\ pc = "execute" /\ cur'.invoked
    /\ cur'.how \in {"missing", "scheme", "failed", "nonzero"}

\* C33, as claimed: an executor that meets a missing file, a bad URL or a
\* non-zero exit of its child process does not raise and returns an envelope
\* whose error is not null.
C33_Original ==
    [][ ExpectedFailure
        => /\ trace'[Len(trace')] = [ev |-> "invoke", id |-> cur.id, name |-> cur.name]
           /\ HasKey(cur'.returned, "error")
           /\ Get(cur'.returned, "error").t = "str" ]_vars

\* C33, amended: none of the three makes the executor raise, and each gives
\* an envelope with an error key. For a missing file and a bad URL the error
\* is a message. For a non-zero exit the error is null: the shell envelope
\* reports the status in exit_code, and the envelope of execute_python_code
\* reports it in stderr and has no exit_code.
C33_ExpectedFailuresReturn ==
    [][ ExpectedFailure
        => /\ trace'[Len(trace')] = [ev |-> "invoke", id |-> cur.id, name |-> cur.name]
           /\ cur'.returned.t = "dict"
           /\ HasKey(cur'.returned, "error")
           /\ NewToolMessage.content = json_dumps(cur'.returned)
           /\ IF cur'.how # "nonzero"
              THEN Get(cur'.returned, "error").t = "str"
              ELSE /\ Get(cur'.returned, "error") = JNull
                   /\ IF ExecutorFunc(agent, cur.name) = "execute_shell_command"
                      THEN /\ HasKey(cur'.returned, "exit_code")
                           /\ Get(cur'.returned, "exit_code") = JInt(1)
                      ELSE /\ ~HasKey(cur'.returned, "exit_code")
                           /\ HasKey(cur'.returned, "stderr")
                           /\ Get(cur'.returned, "stderr")
                                 = JStr("Python process exited with code 1") ]_vars

\* pycodex's shell_exec ran a command that exited with status 1, and the tool
\* message of the call holds the status and a null error
C33_Witness ==
    /\ agent = "pycodex"
    /\ \E i \in 1..Len(history) :
          /\ history[i].role = "tool" /\ history[i].name = "shell_exec"
          /\ json_loads(history[i].content)
                = JDict(<< <<"stdout", JStr("")>>, <<"stderr", JStr("")>>,
                           <<"exit_code", JInt(1)>>, <<"error", JNull>> >>)

\* C34: every envelope a file executor of either toolset returns holds either
\* its result or an error, never both and never neither: for write_file,
\* copy_file and create_directory success is true exactly when error is null,
\* for read_file content is non-null exactly when error is null, and for
\* list_directory entries is non-null exactly when error is null.
C34_SuccessXorError ==
    [][ (pc = "execute" /\ cur'.invoked /\ cur'.returned # None
            /\ cur.name \in {"write_file", "copy_file", "create_directory",
                             "read_file", "list_directory"})
        => LET env == cur'.returned
               payload == CASE cur.name = "read_file" -> "content"
                            [] cur.name = "list_directory" -> "entries"
                            [] OTHER -> "success"
           IN  /\ env.t = "dict"
               /\ Keys(env) = {payload, "error"}
               /\ Get(env, "error").t \in {"null", "str"}
               /\ payload = "success" => Get(env, "success").t = "bool"
               /\ payload = "success"
                     => (Get(env, "success") = JBool(TRUE) <=> Get(env, "error") = JNull)
               /\ payload # "success"
                     => (Get(env, payload) # JNull <=> Get(env, "error") = JNull)
               /\ NewToolMessage.content = json_dumps(env) ]_vars

\* pycodex's create_directory on a path that is a file: success is false and
\* the error says so
C34_Witness ==
    /\ agent = "pycodex"
    /\ files.f = File("old")
    /\ \E i \in 1..Len(history) :
          /\ history[i].role = "tool" /\ history[i].name = "create_directory"
          /\ json_loads(history[i].content)
                = JDict(<< <<"success", JBool(FALSE)>>,
                           <<"error", JStr("Path exists but is not a directory: f")>> >>)

\* C35: the messages of every request sent to the model are well formed: the
\* first is the system message, the last has role user or tool, and every
\* assistant message listing k tool calls is followed at once by exactly k
\* tool messages, one per call in the listed order. While the calls of a
\* message are dispatched their tool messages are held back, so the history
\* ends with the assistant message until all of them are appended together.
C35_RequestsAreWellFormed ==
    /\ \A r \in 1..Len(sent) :
          LET messages == sent[r].request.messages
              n == Len(messages)
          IN  /\ n >= 2
              /\ messages[1].role = "system"
              /\ \A j \in 2..n : messages[j].role # "system"
              /\ messages[n].role \in {"user", "tool"}
              /\ \A j \in 1..n :
                    (messages[j].role = "assistant" /\ "tool_calls" \in DOMAIN messages[j])
                       => LET calls == messages[j].tool_calls
                              k == Len(calls)
                          IN  /\ k >= 1
                              /\ n >= j + k
                              /\ \A c \in 1..k :
                                    /\ messages[j + c].role = "tool"
                                    /\ messages[j + c].tool_call_id = calls[c].id
                              /\ n > j + k => messages[j + k + 1].role # "tool"
              /\ \A j \in 1..n :
                    messages[j].role = "tool"
                       => \E a \in 1..(j - 1) :
                             /\ messages[a].role = "assistant"
                             /\ "tool_calls" \in DOMAIN messages[a]
                             /\ j - a <= Len(messages[a].tool_calls)
    /\ InProcess
          => /\ history[Len(history)].role = "assistant"
             /\ history[Len(history)].tool_calls = tool_calls
             /\ Len(tool_results) = idx - 1

\* the second request of a turn holds an assistant message with two tool
\* calls and, right after it, the two tool messages, which end the history
C35_Witness ==
    /\ Len(sent) >= 2
    /\ LET messages == sent[2].request.messages
           n == Len(messages)
       IN  /\ n >= 5
           /\ messages[n - 2].role = "assistant"
           /\ "tool_calls" \in DOMAIN messages[n - 2]
           /\ Len(messages[n - 2].tool_calls) = 2
           /\ messages[n - 1].role = "tool" /\ messages[n].role = "tool"

C37_AgentsDispatchAlike ==
    pc = "dispatch"
        => LET call == CallAt(tool_calls, idx)
               toy == Dispatch("toyagent", call)
               py == Dispatch("pycodex", call)
           IN  call.name \in TOOL_EXECUTORS("toyagent") \cap TOOL_EXECUTORS("pycodex")
                  => /\ toy.step = py.step
                     /\ toy.env = py.env
                     /\ toy.parsed = py.parsed
                     /\ toy.step \in {"ask", "run"}
                           => /\ ExecutorFunc("toyagent", call.name)
                                    = ExecutorFunc("pycodex", call.name)
                              /\ Binds("toyagent", call.name, toy.parsed)
                                    <=> Binds("pycodex", call.name, py.parsed)

\* C38: in each toolset every name of DANGEROUS_TOOLS is a key of
\* TOOL_EXECUTORS and the schema names of TOOLS_LIST are exactly those keys,
\* each once; in toyagent the keys of DANGEROUS_TOOL_INFO are exactly
\* DANGEROUS_TOOLS. Every request of a session carries that same schema
\* list, whatever was dispatched between the requests.
C38_RegistriesConsistent ==
    /\ \A a \in {"toyagent", "pycodex"} :
          /\ DANGEROUS_TOOLS(a) \subseteq TOOL_EXECUTORS(a)
          /\ { TOOLS_LIST(a)[i] : i \in 1..Len(TOOLS_LIST(a)) } = TOOL_EXECUTORS(a)
          /\ Len(TOOLS_LIST(a)) = Cardinality(TOOL_EXECUTORS(a))
    /\ DOMAIN DANGEROUS_TOOL_INFO = DANGEROUS_TOOLS("toyagent")
    /\ \A r \in 1..Len(sent) :
          /\ sent[r].request.tools = sent[1].request.tools
          /\ { sent[r].request.tools[i] : i \in 1..Len(sent[r].request.tools) }
                = TOOL_EXECUTORS(agent)

\* a second request of a toyagent session, sent after an approved write_file
\* ran, with the nine schemas of the first
C38_Witness ==
    /\ agent = "toyagent"
    /\ Len(sent) = 2
    /\ sent[2].request.tools = sent[1].request.tools
    /\ Len(sent[2].request.tools) = 9
    /\ \E k \in CallEvents : trace[k].ev = "invoke" /\ trace[k].name = "write_file"

====
